---- MODULE Spec2Model ----
(***************************************************************************)
(* Model of the migration engine of go-arangodb-migrator                   *)
(* (pkg/migrator/migrator.go): collectPendingMigrations, the apply loop of *)
(* MigrateArangoDatabase, autoRollback and the commit loop, run against an *)
(* abstract ArangoDB store and a directory of migration files.             *)
(***************************************************************************)
EXTENDS Integers, Sequences, FiniteSets, TLC

(***************************************************************************)
(* Bounds of the model.                                                    *)
(***************************************************************************)
MaxRuns == 2
MaxEdits == 1
MaxSlice == 2

(***************************************************************************)
(* Strings that the code inspects byte by byte (file names) are sequences  *)
(* of byte values.                                                         *)
(***************************************************************************)
Digit(d) == 48 + d

JsonSuffix == <<46, 106, 115, 111, 110>>

HasSuffix(s, suf) ==
    /\ Len(s) >= Len(suf)
    /\ SubSeq(s, Len(s) - Len(suf) + 1, Len(s)) = suf

TrimSuffix(s, suf) ==
    IF HasSuffix(s, suf) THEN SubSeq(s, 1, Len(s) - Len(suf)) ELSE s

\* Go string comparison: bytewise lexicographic order.
RECURSIVE StrLess(_, _)
StrLess(a, b) ==
    IF a = <<>> THEN b # <<>>
    ELSE IF b = <<>> THEN FALSE
    ELSE IF Head(a) # Head(b) THEN Head(a) < Head(b)
    ELSE StrLess(Tail(a), Tail(b))

\* The value of the leading run of decimal digits of a file name.
RECURSIVE NumPrefixAcc(_, _)
NumPrefixAcc(s, acc) ==
    IF s = <<>> \/ Head(s) < 48 \/ Head(s) > 57 THEN acc
    ELSE NumPrefixAcc(Tail(s), 10 * acc + (Head(s) - 48))

NumericPrefix(s) == NumPrefixAcc(s, 0)

\* The directory entries of the model: "2.json" and "10.json".
File2 == <<Digit(2)>> \o JsonSuffix

File10 == <<Digit(1), Digit(0)>> \o JsonSuffix

FileNames == {File2, File10}

\* An entry of the folder that is no migration file: "n.md".
FileNotes == <<110, 46, 109, 100>>

(***************************************************************************)
(* JSON string values inside documents are byte sequences too, because the *)
(* placeholder substitution inspects them.  Values above 255 tag the two   *)
(* computed values: a SHA-256 hex digest and an RFC 3339 timestamp.        *)
(***************************************************************************)
\* Field names are map keys; the field name a hash marker carries is bytes and
\* is looked up by its text.
FieldOfBytes(b) ==
    CASE b = <<95, 107, 101, 121>> -> "_key"
      [] b = <<118>> -> "v"
      [] b = <<119>> -> "w"
      [] b = <<116>> -> "t"
      [] OTHER -> "no such field"

NowMarker == <<78, 79, 87, 40, 41>>

Sha256Prefix == <<83, 72, 65, 50, 53, 54, 40>>

Sha256Suffix == <<41>>

StrK == <<107>>

Str1 == <<49>>

Str2 == <<50>>

HasPrefix(s, pre) ==
    /\ Len(s) >= Len(pre)
    /\ SubSeq(s, 1, Len(pre)) = pre

TrimPrefix(s, pre) ==
    IF HasPrefix(s, pre) THEN SubSeq(s, Len(pre) + 1, Len(s)) ELSE s

IsSpace(c) == c \in {9, 10, 11, 12, 13, 32}

RECURSIVE TrimLeft(_)
TrimLeft(s) ==
    IF s # <<>> /\ IsSpace(Head(s)) THEN TrimLeft(Tail(s)) ELSE s

RECURSIVE TrimRight(_)
TrimRight(s) ==
    IF s # <<>> /\ IsSpace(s[Len(s)]) THEN TrimRight(SubSeq(s, 1, Len(s) - 1)) ELSE s

TrimSpace(s) == TrimRight(TrimLeft(s))

\* hex.EncodeToString(sha256.Sum256(s)): injective in s, never a plain string of the model.
Sha256Hex(s) == <<256>> \o s

\* time.Now().UTC().Format(time.RFC3339) at clock value t.
FormatRFC3339(t) == <<257, t>>

\* v.(string): every value of the model's documents is a JSON string or a computed string.
IsString(v) == \A i \in 1..Len(v) : v[i] <= 257

(***************************************************************************)
(* Operations (type Operation) as they are parsed from migration files.    *)
(* Options are maps from option name to value; the string values of       *)
(* documents are byte sequences.                                           *)
(***************************************************************************)
NoOptions == [x \in {} |-> <<>>]

EdgeDef == [collection |-> "e", from |-> <<"a">>, to |-> <<"a">>]

OpCreateCollection ==
    [type |-> "createCollection", name |-> "a", options |-> [type |-> "document"]]

OpDeleteCollection ==
    [type |-> "deleteCollection", name |-> "a", options |-> NoOptions]

OpCreatePersistentIndex ==
    [type |-> "createPersistentIndex", name |-> "i",
     options |-> [collection |-> "a", fields |-> <<"f">>]]

OpCreateGeoIndex ==
    [type |-> "createGeoIndex", name |-> "i",
     options |-> [collection |-> "a", fields |-> <<"f">>]]

OpDeleteIndex ==
    [type |-> "deleteIndex", name |-> "i", options |-> [collection |-> "a"]]

OpCreateGraph ==
    [type |-> "createGraph", name |-> "g",
     options |-> [edgeDefinitions |-> <<EdgeDef>>, orphanCollections |-> <<>>]]

OpDeleteGraph ==
    [type |-> "deleteGraph", name |-> "g", options |-> NoOptions]

OpAddEdgeDefinition ==
    [type |-> "addEdgeDefinition", name |-> "g", options |-> EdgeDef]

OpDeleteEdgeDefinition ==
    [type |-> "deleteEdgeDefinition", name |-> "g", options |-> [collection |-> "e"]]

OpAddDocument ==
    [type |-> "addDocument", name |-> "a",
     options |-> [document |-> [_key |-> StrK, v |-> Str1]]]

OpUpdateDocument ==
    [type |-> "updateDocument", name |-> "a",
     options |-> [_key |-> StrK, v |-> Str2]]

OpDeleteDocument ==
    [type |-> "deleteDocument", name |-> "a", options |-> [_key |-> StrK]]

OpInvalid ==
    [type |-> "invalidOperation", name |-> "test", options |-> NoOptions]

(***************************************************************************)
(* File contents (type Migration after json.Unmarshal).  parses = FALSE is *)
(* a file that json.Unmarshal rejects.                                     *)
(***************************************************************************)
Mig(u, d) == [parses |-> TRUE, up |-> u, down |-> d]

Garbage == [parses |-> FALSE, up |-> <<>>, down |-> <<>>]

MigSetup == Mig(<<OpCreateCollection, OpCreatePersistentIndex, OpAddDocument>>, <<>>)

MigIndexThenInvalid == Mig(<<OpCreatePersistentIndex, OpInvalid>>, <<>>)

MigCollThenInvalid == Mig(<<OpCreateCollection, OpInvalid>>, <<>>)

MigDocs == Mig(<<OpUpdateDocument, OpDeleteDocument>>, <<>>)

MigGraph == Mig(<<OpCreateGraph, OpAddEdgeDefinition>>, <<>>)

MigEmptyUp == Mig(<<>>, <<>>)

MigWithDown == Mig(<<OpCreateCollection>>, <<OpDeleteCollection>>)

MigGeo == Mig(<<OpCreateGeoIndex, OpDeleteGraph>>, <<>>)

MigTeardown == Mig(<<OpDeleteEdgeDefinition, OpDeleteIndex, OpDeleteCollection>>, <<>>)

Contents ==
    {MigSetup, MigIndexThenInvalid, MigCollThenInvalid, MigDocs, MigGraph, MigGeo,
     MigTeardown, MigEmptyUp, MigWithDown, Garbage}

\* getFileSHA256: the digest of the file's bytes, injective in the content.
getFileSHA256(content) == <<"sha256", content>>

(***************************************************************************)
(* The ArangoDB database: collections, indexes, graphs, edge definitions,  *)
(* documents, and the migration collection (the Ledger) with its records.  *)
(***************************************************************************)
EmptyDb ==
    [colls |-> {}, indexes |-> {}, graphs |-> {}, edgeDefs |-> {}, docs |-> {},
     migColl |-> FALSE, ledger |-> {}]

PopulatedDb ==
    [colls |-> {"a"}, indexes |-> {<<"a", "i">>}, graphs |-> {"g"},
     edgeDefs |-> {<<"g", "e">>},
     docs |-> {[coll |-> "a", key |-> StrK, body |-> [_key |-> StrK, v |-> Str1]]},
     migColl |-> FALSE, ledger |-> {}]

DocExists(db, coll, key) == \E d \in db.docs : d.coll = coll /\ d.key = key

DocBody(db, coll, key) == (CHOOSE d \in db.docs : d.coll = coll /\ d.key = key).body

\* Outcome of a store-facing helper: err (the helper returned an error), the
\* database afterwards, and stored (the store call that carries out the
\* operation was made and succeeded).
OpErr(db) == [err |-> TRUE, db |-> db, stored |-> FALSE]

OpOk(db) == [err |-> FALSE, db |-> db, stored |-> TRUE]

Has(m, k) == k \in DOMAIN m

(***************************************************************************)
(* Error values.  fmt.Errorf builds a message from a format and its        *)
(* arguments: an error is a record of the format, of the arguments that    *)
(* matter, and of the error it was given with %v (cause).                  *)
(***************************************************************************)
NoError == [format |-> "nil"]

\* The error of the driver when the store refuses a call.
StoreRefused == [format |-> "<driver>"]

\* The error of a helper around a refused store call or a missing option, for
\* the operation it worked on.  role is "operation" for the handler of the
\* apply loop and "compensation" for the inverse autoRollback calls: the two
\* never fail with one text in one run.
HandlerFailed(role, operation) ==
    [format |-> "failed to ...: %v", role |-> role,
     type |-> operation.type, name |-> operation.name]

\* Line 381.
UnsupportedOperationError(type) ==
    [format |-> "unsupported operation type: %s", type |-> type]

\* Line 724.
SubstitutionError ==
    [format |-> "no string field '%s' found in document for computing hash"]

\* A failed type assertion: the Go runtime ends the process.
PanicError == [format |-> "panic: interface conversion"]

\* Lines 395 and 411.
MigrationFailed(migrationNumber, err) ==
    [format |-> "migration operation failed for migration %s: %v",
     migration |-> migrationNumber, cause |-> err]

\* Line 496.
RollbackOperationFailed(type, err) ==
    [format |-> "failed to rollback operation %s: %v", type |-> type, cause |-> err]

\* Lines 393 and 409.
RollbackFailed(auto, rollbackErr) ==
    [format |-> IF auto THEN "failed to auto-rollback migrations: %v"
                ELSE "failed to rollback migration: %v",
     cause |-> rollbackErr]

\* Lines 477-490: the operation has no inverse.
CannotRollback(type) == [format |-> "cannot rollback ...", type |-> type]

\* Line 437.
CommitFailed(err) ==
    [format |-> "failed to mark migration as applied: %v", cause |-> err]

\* The errors of collectPendingMigrations, by kind.
CollectFailed(kind) == [format |-> kind]

\* The error a helper returned with outcome out.
ErrorOf(out, role, operation) ==
    IF Has(out, "error") /\ out.error # NoError THEN out.error
    ELSE IF out.err THEN HandlerFailed(role, operation)
    ELSE NoError

(***************************************************************************)
(* The plain operations (migrator.go 857-1215).                            *)
(***************************************************************************)
createCollection(db, name, options) ==
    IF ~Has(options, "type") THEN OpErr(db)
    ELSE IF options.type \in {"document", "edge"}
         THEN IF name \in db.colls THEN OpErr(db)
              ELSE OpOk([db EXCEPT !.colls = @ \cup {name}])
         ELSE OpErr(db)

\* coll.Remove drops the collection with its documents and indexes.
deleteCollection(db, name) ==
    IF name \notin db.colls THEN OpErr(db)
    ELSE OpOk([db EXCEPT !.colls = @ \ {name},
                         !.docs = {d \in @ : d.coll # name},
                         !.indexes = {x \in @ : x[1] # name}])

\* EnsurePersistentIndex / EnsureGeoIndex succeed without change on an index
\* that exists; the "created" result is discarded by the code.
ensureIndex(db, name, options) ==
    IF ~Has(options, "collection") THEN OpErr(db)
    ELSE IF options.collection \notin db.colls THEN OpErr(db)
    ELSE IF ~Has(options, "fields") THEN OpErr(db)
    ELSE OpOk([db EXCEPT !.indexes = @ \cup {<<options.collection, name>>}])

createPersistentIndex(db, name, options) == ensureIndex(db, name, options)

createGeoIndex(db, name, options) == ensureIndex(db, name, options)

deleteIndex(db, name, options) ==
    IF ~Has(options, "collection") THEN OpErr(db)
    ELSE IF options.collection \notin db.colls THEN OpErr(db)
    ELSE IF <<options.collection, name>> \notin db.indexes THEN OpErr(db)
    ELSE OpOk([db EXCEPT !.indexes = @ \ {<<options.collection, name>>}])

createGraph(db, name, options) ==
    IF ~Has(options, "edgeDefinitions") THEN OpErr(db)
    ELSE IF ~Has(options, "orphanedCollections") /\ ~Has(options, "orphanCollections")
         THEN OpErr(db)
    ELSE IF name \in db.graphs THEN OpErr(db)
    ELSE OpOk([db EXCEPT !.graphs = @ \cup {name},
                         !.edgeDefs = @ \cup {<<name, options.edgeDefinitions[j].collection>> :
                                               j \in DOMAIN options.edgeDefinitions}])

deleteGraph(db, name) ==
    IF name \notin db.graphs THEN OpErr(db)
    ELSE OpOk([db EXCEPT !.graphs = @ \ {name},
                         !.edgeDefs = {x \in @ : x[1] # name}])

\* The error of graph.CreateEdgeDefinition is discarded (line 1106); the err
\* tested on line 1107 is the nil left by json.Unmarshal.
addEdgeDefinition(db, name, options) ==
    IF name \notin db.graphs THEN OpErr(db)
    ELSE IF ~Has(options, "collection") \/ <<name, options.collection>> \in db.edgeDefs
         THEN [err |-> FALSE, db |-> db, stored |-> FALSE]
    ELSE OpOk([db EXCEPT !.edgeDefs = @ \cup {<<name, options.collection>>}])

deleteEdgeDefinition(db, name, options) ==
    IF name \notin db.graphs THEN OpErr(db)
    ELSE IF ~Has(options, "collection") THEN OpErr(db)
    ELSE IF <<name, options.collection>> \notin db.edgeDefs THEN OpErr(db)
    ELSE OpOk([db EXCEPT !.edgeDefs = @ \ {<<name, options.collection>>}])

\* coll.CreateDocument: rejects a key that exists.  A document without _key
\* gets the server-generated key, modelled as the empty key.
DocKey(document) == IF Has(document, "_key") THEN document["_key"] ELSE <<>>

storeCreateDocument(db, coll, document) ==
    IF coll \notin db.colls THEN OpErr(db)
    ELSE IF DocExists(db, coll, DocKey(document)) THEN OpErr(db)
    ELSE OpOk([db EXCEPT !.docs = @ \cup
                 {[coll |-> coll, key |-> DocKey(document), body |-> document]}])

storeDeleteDocument(db, coll, key) ==
    IF coll \notin db.colls THEN OpErr(db)
    ELSE IF ~DocExists(db, coll, key) THEN OpErr(db)
    ELSE OpOk([db EXCEPT !.docs = {d \in @ : ~(d.coll = coll /\ d.key = key)}])

\* coll.UpdateDocument: merges the patch into the stored document.
storeUpdateDocument(db, coll, key, patch) ==
    IF coll \notin db.colls THEN OpErr(db)
    ELSE IF ~DocExists(db, coll, key) THEN OpErr(db)
    ELSE OpOk([db EXCEPT !.docs = {d \in @ : ~(d.coll = coll /\ d.key = key)} \cup
                 {[coll |-> coll, key |-> key, body |-> patch @@ DocBody(db, coll, key)]}])

deleteDocument(db, name, options) ==
    IF name \notin db.colls THEN OpErr(db)
    ELSE IF ~Has(options, "_key") THEN OpErr(db)
    ELSE storeDeleteDocument(db, name, options["_key"])

deleteDocumentByID(db, collectionName, documentID) ==
    storeDeleteDocument(db, collectionName, documentID)

restoreDocument(db, collectionName, document) ==
    storeCreateDocument(db, collectionName, document)

(***************************************************************************)
(* The tracking versions (migrator.go 540-826) return an OperationResult:  *)
(* here err, the database afterwards, the Result and RollbackData maps,    *)
(* and the options map as the handler leaves it (the handlers of documents *)
(* write into the map they are given).  panic = TRUE is a failed type      *)
(* assertion, which ends the process.                                      *)
(***************************************************************************)
NoMap == [x \in {} |-> <<>>]

Tracked(out, result, rollbackData, options) ==
    [err |-> out.err, error |-> IF Has(out, "error") THEN out.error ELSE NoError,
     db |-> out.db, stored |-> out.stored, panic |-> FALSE,
     result |-> IF out.err THEN NoMap ELSE result,
     rollbackData |-> rollbackData, options |-> options]

Panicked(db, options) ==
    [err |-> TRUE, error |-> PanicError, db |-> db, stored |-> FALSE, panic |-> TRUE,
     result |-> NoMap, rollbackData |-> NoMap, options |-> options]

createCollectionWithTracking(db, name, options) ==
    Tracked(createCollection(db, name, options),
            [collectionName |-> name,
             collectionType |-> IF Has(options, "type") THEN options.type ELSE "nil"],
            NoMap, options)

createPersistentIndexWithTracking(db, name, options) ==
    Tracked(createPersistentIndex(db, name, options),
            [indexName |-> name,
             collection |-> IF Has(options, "collection") THEN options.collection ELSE "nil"],
            NoMap, options)

createGeoIndexWithTracking(db, name, options) ==
    Tracked(createGeoIndex(db, name, options),
            [indexName |-> name,
             collection |-> IF Has(options, "collection") THEN options.collection ELSE "nil"],
            NoMap, options)

createGraphWithTracking(db, name, options) ==
    Tracked(createGraph(db, name, options), [graphName |-> name], NoMap, options)

addEdgeDefinitionWithTracking(db, name, options) ==
    Tracked(addEdgeDefinition(db, name, options),
            [graphName |-> name,
             collection |-> IF Has(options, "collection") THEN options.collection ELSE "nil"],
            NoMap, options)

deleteIndexWithTracking(db, name, options) ==
    Tracked(deleteIndex(db, name, options),
            [indexName |-> name,
             collection |-> IF Has(options, "collection") THEN options.collection ELSE "nil"],
            NoMap, options)

deleteEdgeDefinitionWithTracking(db, name, options) ==
    Tracked(deleteEdgeDefinition(db, name, options),
            [graphName |-> name,
             collection |-> IF Has(options, "collection") THEN options.collection ELSE "nil"],
            NoMap, options)

deleteCollectionWithTracking(db, name) ==
    Tracked(deleteCollection(db, name), [collectionName |-> name], NoMap, NoMap)

\* One iteration of the "Process special values" loop of addDocument, on key k.
processField(document, k, now) ==
    LET v == document[k]
        d1 == IF v = NowMarker THEN [document EXCEPT ![k] = FormatRFC3339(now)] ELSE document
    IN  IF IsString(v) /\ HasPrefix(v, Sha256Prefix) /\ HasSuffix(v, Sha256Suffix)
        THEN LET field == FieldOfBytes(TrimSpace(TrimSuffix(TrimPrefix(v, Sha256Prefix), Sha256Suffix)))
             IN  IF Has(d1, field)
                 THEN IF IsString(d1[field])
                      THEN [status |-> "ok", doc |-> [d1 EXCEPT ![k] = Sha256Hex(d1[field])]]
                      ELSE [status |-> "panic", doc |-> d1]
                 ELSE [status |-> "error", doc |-> d1]
        ELSE [status |-> "ok", doc |-> d1]

\* The loop, visiting the keys in the order the map iteration yields them.
RECURSIVE processSpecialValues(_, _, _)
processSpecialValues(document, order, now) ==
    IF order = <<>> THEN [status |-> "ok", doc |-> document]
    ELSE LET r == processField(document, Head(order), now)
         IN  IF r.status = "ok" THEN processSpecialValues(r.doc, Tail(order), now)
             ELSE r

\* The orders in which a map's keys can be visited.
KeyOrders(m) ==
    {o \in [1..Cardinality(DOMAIN m) -> DOMAIN m] :
        \A i, j \in 1..Cardinality(DOMAIN m) : i # j => o[i] # o[j]}

addDocumentWithTracking(db, name, options, order, now) ==
    IF name \notin db.colls THEN Tracked(OpErr(db), NoMap,
            IF Has(options, "document") THEN [originalDocument |-> options.document] ELSE NoMap,
            options)
    ELSE IF ~Has(options, "document") THEN Tracked(OpErr(db), NoMap, NoMap, options)
    ELSE LET p == processSpecialValues(options.document, order, now)
             written == [options EXCEPT !.document = p.doc]
             rb == [originalDocument |-> p.doc]
         IN  IF p.status = "panic" THEN Panicked(db, written)
             ELSE IF p.status = "error"
             THEN Tracked(OpErr(db) @@ [error |-> SubstitutionError], NoMap, rb, written)
             ELSE Tracked(storeCreateDocument(db, name, p.doc),
                          [documentID |-> DocKey(p.doc)], rb, written)

\* The "Process special values" loop of updateDocument: NOW() only, on the options map.
processNow(options, now) ==
    [k \in DOMAIN options |-> IF options[k] = NowMarker THEN FormatRFC3339(now) ELSE options[k]]

updateDocumentWithTracking(db, name, options, now) ==
    IF name \notin db.colls THEN Tracked(OpErr(db), NoMap, NoMap, options)
    ELSE IF ~Has(options, "_key") THEN Tracked(OpErr(db), NoMap, NoMap, options)
    ELSE IF ~DocExists(db, name, options["_key"]) THEN Tracked(OpErr(db), NoMap, NoMap, options)
    ELSE Tracked(storeUpdateDocument(db, name, options["_key"], processNow(options, now)),
                 [documentKey |-> options["_key"]],
                 [originalDocument |-> DocBody(db, name, options["_key"])],
                 processNow(options, now))

deleteDocumentWithTracking(db, name, options) ==
    IF name \notin db.colls THEN Tracked(OpErr(db), NoMap, NoMap, options)
    ELSE IF ~Has(options, "_key") THEN Tracked(OpErr(db), NoMap, NoMap, options)
    ELSE IF ~DocExists(db, name, options["_key"]) THEN Tracked(OpErr(db), NoMap, NoMap, options)
    ELSE Tracked(storeDeleteDocument(db, name, options["_key"]),
                 [documentKey |-> options["_key"]],
                 [originalDocument |-> DocBody(db, name, options["_key"])],
                 options)

\* Mutant: a type without a case is passed over.
UnsupportedOperation_PassedOver(db, operation) ==
    Tracked([err |-> FALSE, db |-> db, stored |-> FALSE], NoMap, NoMap, operation.options)

\* The default case of the type switch (lines 380-381).
UnsupportedOperation(db, operation) ==
    Tracked(OpErr(db) @@ [error |-> UnsupportedOperationError(operation.type)],
            NoMap, NoMap, operation.options)

\* The type switch of MigrateArangoDatabase (lines 357-382).
Dispatch(db, operation, order, now) ==
    CASE operation.type = "createCollection" ->
            createCollectionWithTracking(db, operation.name, operation.options)
      [] operation.type = "createPersistentIndex" ->
            createPersistentIndexWithTracking(db, operation.name, operation.options)
      [] operation.type = "createGeoIndex" ->
            createGeoIndexWithTracking(db, operation.name, operation.options)
      [] operation.type = "createGraph" ->
            createGraphWithTracking(db, operation.name, operation.options)
      [] operation.type = "addEdgeDefinition" ->
            addEdgeDefinitionWithTracking(db, operation.name, operation.options)
      [] operation.type = "deleteIndex" ->
            deleteIndexWithTracking(db, operation.name, operation.options)
      [] operation.type = "deleteEdgeDefinition" ->
            deleteEdgeDefinitionWithTracking(db, operation.name, operation.options)
      [] operation.type = "deleteCollection" ->
            deleteCollectionWithTracking(db, operation.name)
      [] operation.type = "addDocument" ->
            addDocumentWithTracking(db, operation.name, operation.options, order, now)
      [] operation.type = "updateDocument" ->
            updateDocumentWithTracking(db, operation.name, operation.options, now)
      [] operation.type = "deleteDocument" ->
            deleteDocumentWithTracking(db, operation.name, operation.options)
      [] OTHER -> UnsupportedOperation(db, operation)

\* Mutant: an operation without inverse is passed over and the walk goes on.
NoInverse_PassedOver(db, operation) == OpOk(db)

\* Lines 476, 479, 481, 483 and 489: the branches of autoRollback that make
\* an error without calling the store.
NoInverse(db, operation) == OpErr(db) @@ [error |-> CannotRollback(operation.type)]

\* One iteration of the loop of autoRollback (lines 450-500) on one
\* OperationResult: the inverse by type, nil for a type without a case.
RollbackOne(db, operation) ==
    CASE operation.type = "createCollection" -> deleteCollection(db, operation.name)
      [] operation.type = "createPersistentIndex" ->
            deleteIndex(db, operation.name, operation.options)
      [] operation.type = "createGeoIndex" ->
            deleteIndex(db, operation.name, operation.options)
      [] operation.type = "createGraph" -> deleteGraph(db, operation.name)
      [] operation.type = "addEdgeDefinition" ->
            deleteEdgeDefinition(db, operation.name, operation.options)
      [] operation.type = "addDocument" ->
            IF Has(operation.result, "documentID")
            THEN deleteDocumentByID(db, operation.name, operation.result.documentID)
            ELSE deleteDocument(db, operation.name, operation.options)
      [] operation.type = "updateDocument" ->
            IF Has(operation.rollbackData, "originalDocument")
            THEN restoreDocument(db, operation.name, operation.rollbackData.originalDocument)
            ELSE NoInverse(db, operation)
      [] operation.type = "deleteCollection" ->
            NoInverse(db, operation)
      [] operation.type = "deleteIndex" ->
            NoInverse(db, operation)
      [] operation.type = "deleteEdgeDefinition" ->
            NoInverse(db, operation)
      [] operation.type = "deleteDocument" ->
            IF Has(operation.rollbackData, "originalDocument")
            THEN restoreDocument(db, operation.name, operation.rollbackData.originalDocument)
            ELSE NoInverse(db, operation)
      [] OTHER -> OpOk(db)

(***************************************************************************)
(* collectPendingMigrations (lines 224-323).                               *)
(***************************************************************************)
\* os.ReadDir: the entries sorted by file name.
RECURSIVE SortNames(_)
SortNames(S) ==
    IF S = {} THEN <<>>
    ELSE LET m == CHOOSE x \in S : \A y \in S \ {x} : StrLess(x, y)
         IN  <<m>> \o SortNames(S \ {m})

ReadDir(d) == SortNames(DOMAIN d)

\* migrationColl.ReadDocument / DocumentExists on the key.
LedgerHas(db, migrationNumber) == \E r \in db.ledger : r.key = migrationNumber

LedgerRecord(db, migrationNumber) == CHOOSE r \in db.ledger : r.key = migrationNumber

\* Mutant: the hash of an applied file is never compared.
IntegrityFailure_NeverChecked(db, migrationNumber, hash, options) == FALSE

\* Mutant: the Force option is not consulted.
IntegrityFailure_IgnoresForce(db, migrationNumber, hash, options) ==
    /\ LedgerHas(db, migrationNumber)
    /\ LedgerRecord(db, migrationNumber).sha256 # hash

\* Lines 268-276: the file changed since it was applied and Force is off.
IntegrityFailure(db, migrationNumber, hash, options) ==
    /\ LedgerHas(db, migrationNumber)
    /\ LedgerRecord(db, migrationNumber).sha256 # hash
    /\ ~options.Force

\* Mutant: a file that has a record is not skipped.
AlreadyApplied_NeverSkips(db, migrationNumber) == FALSE

\* Lines 278-286: an existing record takes the file out of the pending set.
AlreadyApplied(db, migrationNumber) == LedgerHas(db, migrationNumber)

\* Mutant: the down list is not checked.
ValidateMigration_NoDownCheck(content) ==
    IF ~content.parses THEN "parse"
    ELSE IF Len(content.up) = 0 THEN "validation"
    ELSE "none"

\* Lines 294-308: "none" or the error of parsing and validating a file.
ValidateMigration(content) ==
    IF ~content.parses THEN "parse"
    ELSE IF Len(content.up) = 0 THEN "validation"
    ELSE IF Len(content.down) > 0 THEN "validation"
    ELSE "none"

\* Mutant: every entry of the folder is taken for a migration file.
IsMigrationFile_Any(name) == TRUE

\* Line 251: the entries the loop reads.
IsMigrationFile(name) == HasSuffix(name, JsonSuffix)

\* No file is rewritten while the loop reads the folder.
NoRewrite == <<>>

\* os.ReadFile of line 289: the second read of the file, after the read of
\* getFileSHA256 (line 255).  rewrites gives the content of the files that
\* another process has rewritten between the two reads.
ReadFile(d, rewrites, name) ==
    IF name \in DOMAIN rewrites THEN rewrites[name] ELSE d[name]

\* The loop over the directory entries: the error of the first entry that
\* fails, or the pending migrations in the order of the entries.
RECURSIVE CollectLoop(_, _, _, _, _, _)
CollectLoop(db, d, rewrites, options, entries, pendingMigrations) ==
    IF entries = <<>> THEN [err |-> "none", pending |-> pendingMigrations]
    ELSE LET name == Head(entries)
             migrationNumber == TrimSuffix(name, JsonSuffix)
             hash == getFileSHA256(d[name])
             migrationFile == ReadFile(d, rewrites, name)
         IN  IF ~IsMigrationFile(name)
             THEN CollectLoop(db, d, rewrites, options, Tail(entries), pendingMigrations)
             ELSE IF IntegrityFailure(db, migrationNumber, hash, options)
             THEN [err |-> "integrity", pending |-> <<>>]
             ELSE IF AlreadyApplied(db, migrationNumber)
             THEN CollectLoop(db, d, rewrites, options, Tail(entries), pendingMigrations)
             ELSE IF ValidateMigration(migrationFile) # "none"
             THEN [err |-> ValidateMigration(migrationFile), pending |-> <<>>]
             ELSE CollectLoop(db, d, rewrites, options, Tail(entries),
                      Append(pendingMigrations,
                             [MigrationNumber |-> migrationNumber,
                              Migration |-> migrationFile,
                              Hash |-> hash,
                              FilePath |-> name]))

collectPendingMigrations(db, d, rewrites, options) ==
    CollectLoop(db, d, rewrites, options, ReadDir(d), <<>>)

(***************************************************************************)
(* The state of the program and of its environment.                        *)
(***************************************************************************)
VARIABLES
    dir,                 \* the migration folder: file name -> content
    db,                  \* the database
    pc,                  \* "idle", "applying", "compensating", "committing", "done", "failed"
    options,             \* MigrationOptions of the current run
    pendingMigrations,   \* the pending set of the current run
    mi, oi,              \* position of the apply loops
    migrationOperations, \* results of the current migration
    appliedOperations,   \* results of all migrations of the run
    appliedMigrations,   \* records buffered for the commit loop
    rollbackList, ri,    \* argument and position of autoRollback
    ci,                  \* position of the commit loop
    result,              \* what the run returned: "none" while it runs
    returned,            \* the error value the run returned; while it compensates,
                         \* the error of the failed operation kept for the return
    clock,               \* time.Now()
    runs,                \* number of runs started
    edits,               \* number of changes made by the environment: writes and
                         \* removals of files, runs started with other options
    pre,                 \* the database when the current run started
    prev,                \* the run before the current one: its options and result,
                         \* and whether the folder was edited after it
    dirty,               \* the folder was edited since the current run started
    execLog,             \* the operations the current run attempted, in order
    compLog,             \* the compensation steps of the current run, in order
    cli,                 \* the command line tool: whether the database exists on
                         \* the server, the number of invocations, and the
                         \* --dry-run option of the last one
    ctx,                 \* the context the run was called with: whether it is
                         \* done, and where the run was when it was cancelled
    other,               \* a second call of MigrateArangoDatabase on the same
                         \* database and folder, by another process: its
                         \* position and its local variables
    call                 \* a call of getSlice: its type argument, its arguments
                         \* and what it returned

vars ==
    <<dir, db, pc, options, pendingMigrations, mi, oi, migrationOperations,
      appliedOperations, appliedMigrations, rollbackList, ri, ci, result, returned,
      clock, runs, edits, pre, prev, dirty, execLog, compLog, cli, ctx,
      other, call>>

Directories ==
    UNION {[S -> Contents] : S \in SUBSET FileNames}

\* A record written by an earlier version of the tool: no operationResults.
LegacyRecord ==
    [key |-> TrimSuffix(File2, JsonSuffix), appliedAt |-> 0, sha256 |-> getFileSHA256(MigSetup)]

InitDbs ==
    {EmptyDb, PopulatedDb,
     [PopulatedDb EXCEPT !.migColl = TRUE, !.ledger = {LegacyRecord}]}

NoOptionsYet == [Force |-> FALSE, AutoRollback |-> FALSE]

\* A context that has not been cancelled.
Live == [done |-> FALSE, at |-> "none"]

\* A nil slice.
NilSlice == [nil |-> TRUE, items |-> <<>>]

\* getSlice has not been called.
NoCall ==
    [pc |-> "idle", T |-> "none", m |-> <<>>, key |-> "none", slice |-> NilSlice,
     ok |-> FALSE]

\* No second call has been made.
NoOtherRun ==
    [pc |-> "idle", options |-> NoOptionsYet, pendingMigrations |-> <<>>, mi |-> 1,
     oi |-> 1, migrationOperations |-> <<>>, appliedOperations |-> <<>>,
     appliedMigrations |-> <<>>, rollbackList |-> <<>>, ri |-> 0, ci |-> 1,
     result |-> "none", during |-> 0, execLog |-> <<>>]

\* No run has been started.
InitRun ==
    /\ pc = "idle"
    /\ options = NoOptionsYet
    /\ pendingMigrations = <<>>
    /\ mi = 1
    /\ oi = 1
    /\ migrationOperations = <<>>
    /\ appliedOperations = <<>>
    /\ appliedMigrations = <<>>
    /\ rollbackList = <<>>
    /\ ri = 0
    /\ ci = 1
    /\ result = "none"
    /\ returned = NoError
    /\ clock = 1
    /\ runs = 0
    /\ edits = 0
    /\ pre = db
    /\ prev = [result |-> "none", options |-> NoOptionsYet, edited |-> FALSE]
    /\ dirty = FALSE
    /\ execLog = <<>>
    /\ compLog = <<>>
    /\ ctx = Live
    /\ other = NoOtherRun

\* The library is called on a database that exists, not through the tool.
NoCli == [exists |-> TRUE, calls |-> 0, dryRun |-> FALSE]

Init ==
    /\ dir \in Directories
    /\ db \in InitDbs
    /\ cli = NoCli
    /\ InitRun
    /\ call = NoCall

Idle == pc \in {"idle", "done", "failed"}

\* Mutant: a missing migration collection is left missing.
EnsureMigrationCollection_Skipped(d) == d

\* Mutant: the migration collection is created anew on every run.
EnsureMigrationCollection_Recreates(d) == [d EXCEPT !.migColl = TRUE, !.ledger = {}]

\* Lines 226-240: the migration collection is created when it is missing.
EnsureMigrationCollection(d) == [d EXCEPT !.migColl = TRUE]

\* MigrateArangoDatabase up to the apply loop (lines 325-341), with the
\* files that another process rewrites between the two reads of the collect
\* loop; the folder holds the rewritten files afterwards.
RunWhileRewritten(force, auto, rewrites) ==
    /\ Idle
    /\ runs < MaxRuns
    /\ LET reconfigured == runs > 0 /\ [Force |-> force, AutoRollback |-> auto] # options
           changes == (IF reconfigured THEN 1 ELSE 0) + Cardinality(DOMAIN rewrites)
       IN  /\ edits + changes <= MaxEdits
           /\ edits' = edits + changes
    /\ LET o == [Force |-> force, AutoRollback |-> auto]
           d == EnsureMigrationCollection(db)
           c == collectPendingMigrations(d, dir, rewrites, o)
       IN  /\ options' = o
           /\ db' = d
           /\ pre' = db
           /\ pendingMigrations' = c.pending
           /\ pc' = IF c.err # "none" THEN "failed"
                    ELSE IF Len(c.pending) = 0 THEN "done"
                    ELSE "applying"
           /\ result' = IF c.err # "none" THEN c.err
                        ELSE IF Len(c.pending) = 0 THEN "ok"
                        ELSE "none"
           /\ returned' = IF c.err # "none" THEN CollectFailed(c.err) ELSE NoError
    /\ prev' = [result |-> result, options |-> options, edited |-> dirty]
    /\ dirty' = (rewrites # NoRewrite)
    /\ dir' = [name \in DOMAIN dir |-> ReadFile(dir, rewrites, name)]
    /\ mi' = 1
    /\ oi' = 1
    /\ migrationOperations' = <<>>
    /\ appliedOperations' = <<>>
    /\ appliedMigrations' = <<>>
    /\ rollbackList' = <<>>
    /\ ri' = 0
    /\ ci' = 1
    /\ execLog' = <<>>
    /\ compLog' = <<>>
    /\ runs' = runs + 1
    /\ ctx' = Live
    /\ UNCHANGED clock

\* The run on a folder that nobody writes to while it is read.
Run(force, auto) == RunWhileRewritten(force, auto, NoRewrite)

\* The library called by a program of its own.
StartRun(force, auto) ==
    /\ Run(force, auto)
    /\ UNCHANGED <<cli, other, call>>

\* Lines 416-418: the options stored in the OperationResult are the
\* operation's own map, which the document handlers have written into.
OptionsAfter(operation, r) ==
    IF operation.type \in {"addDocument", "updateDocument"} THEN r.options
    ELSE operation.options

\* Mutant: autoRollback is handed the list in the order it will walk it.
RollbackArgument_Forward(auto, applied, legacyOperation) ==
    IF auto THEN [j \in 1..Len(applied) |-> applied[Len(applied) + 1 - j]]
    ELSE <<legacyOperation>>

\* Mutant: the operation that failed is handed to autoRollback with the others.
RollbackArgument_WithFailing(auto, applied, legacyOperation) ==
    IF auto THEN Append(applied, legacyOperation) ELSE <<legacyOperation>>

\* Lines 387-405: what autoRollback is called with when an operation fails.
RollbackArgument(auto, applied, legacyOperation) ==
    IF auto THEN applied ELSE <<legacyOperation>>

\* Mutant: the record is built without the results of the operations.
NewAppliedMigration_NoResults(pendingMigration, now, operationResults) ==
    [key |-> pendingMigration.MigrationNumber,
     appliedAt |-> now,
     sha256 |-> pendingMigration.Hash,
     operationResults |-> <<>>]

\* Lines 424-429.
NewAppliedMigration(pendingMigration, now, operationResults) ==
    [key |-> pendingMigration.MigrationNumber,
     appliedAt |-> now,
     sha256 |-> pendingMigration.Hash,
     operationResults |-> operationResults]

\* Mutant: the records are committed as soon as one migration is through.
AfterMigration_CommitsAtOnce(lastMig) == "committing"

\* Lines 343 and 433: the commit loop starts when the apply loop has gone
\* through every pending migration.
AfterMigration(lastMig) == IF lastMig THEN "committing" ELSE "applying"

\* The types whose case of the switch (lines 357-380) calls a handler; every
\* handler starts with a call of the store (GetCollection, CreateCollection,
\* Graph or CreateGraph).
HandledTypes ==
    {"createCollection", "createPersistentIndex", "createGeoIndex", "createGraph",
     "addEdgeDefinition", "deleteIndex", "deleteEdgeDefinition", "deleteCollection",
     "addDocument", "updateDocument", "deleteDocument"}

\* The switch of lines 357-382 under the context of the run: the handlers
\* pass ctx to the driver, and a call made with a context that is done
\* returns the context's error without reaching the store.
DispatchWithContext(c, d, operation, order, now) ==
    IF c.done /\ operation.type \in HandledTypes
    THEN Tracked(OpErr(d), NoMap, NoMap, operation.options)
    ELSE Dispatch(d, operation, order, now)

\* The branches of autoRollback (lines 454-491) that call the store.
UndoCallsStore(operation) ==
    \/ operation.type \in {"createCollection", "createPersistentIndex", "createGeoIndex",
                           "createGraph", "addEdgeDefinition", "addDocument"}
    \/ /\ operation.type \in {"updateDocument", "deleteDocument"}
       /\ Has(operation.rollbackData, "originalDocument")

\* Mutant: autoRollback is given a context of its own, which is not done.
RollbackWithContext_Fresh(c, d, operation) == RollbackOne(d, operation)

\* One step of autoRollback under the context it is called with, which is
\* the context of the run (lines 389 and 405).
RollbackWithContext(c, d, operation) ==
    IF c.done /\ UndoCallsStore(operation) THEN OpErr(d)
    ELSE RollbackOne(d, operation)

\* Mutant: the loop goes round again after a failure.
AfterFailure_TriesAgain(toRollback) == "applying"

\* Lines 384-413: a failed operation ends the apply loop; autoRollback is
\* called and, its list being empty, returns at once.
AfterFailure(toRollback) == IF Len(toRollback) = 0 THEN "failed" ELSE "compensating"

\* One iteration of the inner apply loop (lines 353-421), with the end of the
\* outer iteration (lines 423-430) when the migration's last operation succeeds.
ApplyOp ==
    /\ pc = "applying"
    /\ LET pendingMigration == pendingMigrations[mi]
           operation == pendingMigration.Migration.up[oi]
           orders == IF operation.type = "addDocument" /\ Has(operation.options, "document")
                     THEN KeyOrders(operation.options.document)
                     ELSE {<<>>}
       IN  \E order \in orders :
           LET r == DispatchWithContext(ctx, db, operation, order, clock)
               err == ErrorOf(r, "operation", operation)
               operationResult ==
                   [type |-> operation.type, name |-> operation.name,
                    options |-> OptionsAfter(operation, r),
                    result |-> r.result, rollbackData |-> r.rollbackData]
               legacyOperation ==
                   [type |-> operation.type, name |-> operation.name,
                    options |-> OptionsAfter(operation, r),
                    result |-> NoMap, rollbackData |-> NoMap]
               toRollback == RollbackArgument(options.AutoRollback, appliedOperations, legacyOperation)
               lastOp == oi = Len(pendingMigration.Migration.up)
               lastMig == mi = Len(pendingMigrations)
           IN  /\ db' = r.db
               /\ execLog' = Append(execLog,
                      [migration |-> pendingMigration.MigrationNumber, index |-> oi,
                       type |-> operation.type, err |-> r.err, error |-> err,
                       stored |-> r.stored])
               /\ IF r.panic
                  THEN /\ pc' = "failed"
                       /\ result' = "panic"
                       /\ returned' = err
                       /\ UNCHANGED <<mi, oi, migrationOperations, appliedOperations,
                                      appliedMigrations, rollbackList, ri>>
                  ELSE IF r.err
                  THEN /\ rollbackList' = toRollback
                       /\ ri' = Len(toRollback)
                       /\ pc' = AfterFailure(toRollback)
                       /\ result' = IF Len(toRollback) = 0 THEN "operation" ELSE "none"
                       /\ returned' = MigrationFailed(pendingMigration.MigrationNumber, err)
                       /\ UNCHANGED <<mi, oi, migrationOperations, appliedOperations,
                                      appliedMigrations>>
                  ELSE /\ appliedOperations' = Append(appliedOperations, operationResult)
                       /\ UNCHANGED <<rollbackList, ri, result, returned>>
                       /\ IF lastOp
                          THEN /\ appliedMigrations' = Append(appliedMigrations,
                                      NewAppliedMigration(pendingMigration, clock,
                                          Append(migrationOperations, operationResult)))
                               /\ migrationOperations' = <<>>
                               /\ mi' = mi + 1
                               /\ oi' = 1
                               /\ pc' = AfterMigration(lastMig)
                          ELSE /\ migrationOperations' = Append(migrationOperations, operationResult)
                               /\ oi' = oi + 1
                               /\ pc' = "applying"
                               /\ UNCHANGED <<appliedMigrations, mi>>
    /\ clock' = clock + 1
    /\ UNCHANGED <<dir, cli, ctx, other, call, options, pendingMigrations, ci, runs, edits, pre, prev,
                   dirty,
                   compLog>>

\* Mutant: the error of autoRollback is not looked at.
ReturnAfterRollback_IgnoresError(rollbackErr) == "operation"

\* Lines 390-395 and 406-411: what the run returns when autoRollback has returned.
ReturnAfterRollback(rollbackErr) == IF rollbackErr THEN "rollback" ELSE "operation"

\* One iteration of the loop of autoRollback (lines 450-500) and, at its end
\* or at its first error, the return of MigrateArangoDatabase (lines 390-411).
RollbackStep ==
    /\ pc = "compensating"
    /\ LET operation == rollbackList[ri]
           o == RollbackWithContext(ctx, db, operation)
       IN  /\ db' = o.db
           /\ compLog' = Append(compLog,
                  [operation |-> operation, err |-> o.err,
                   error |-> ErrorOf(o, "compensation", operation)])
           /\ IF o.err
              THEN /\ pc' = "failed"
                   /\ result' = ReturnAfterRollback(TRUE)
                   /\ returned' = RollbackFailed(options.AutoRollback,
                                      RollbackOperationFailed(operation.type,
                                          ErrorOf(o, "compensation", operation)))
                   /\ ri' = ri
              ELSE /\ ri' = ri - 1
                   /\ pc' = IF ri = 1 THEN "failed" ELSE "compensating"
                   /\ result' = IF ri = 1 THEN ReturnAfterRollback(FALSE) ELSE "none"
                   /\ UNCHANGED returned
    /\ UNCHANGED <<dir, cli, ctx, other, call, options, pendingMigrations, mi, oi, migrationOperations,
                   appliedOperations, appliedMigrations, rollbackList, ci, clock, runs,
                   edits, pre, prev, dirty, execLog>>

\* Mutant: the new record takes the place of the records there are.
AppendRecord_Replaces(d, record) ==
    IF ~d.migColl \/ LedgerHas(d, record.key) THEN OpErr(d)
    ELSE OpOk([d EXCEPT !.ledger = {record}])

\* migrationColl.CreateDocument: rejects a key that has a record.
AppendRecord(d, record) ==
    IF ~d.migColl \/ LedgerHas(d, record.key) THEN OpErr(d)
    ELSE OpOk([d EXCEPT !.ledger = @ \cup {record}])

\* Line 435 under the context of the run.
AppendRecordWithContext(c, d, record) ==
    IF c.done THEN OpErr(d) ELSE AppendRecord(d, record)

\* One iteration of the commit loop (lines 433-439) and the return (441-442).
CommitStep ==
    /\ pc = "committing"
    /\ LET o == AppendRecordWithContext(ctx, db, appliedMigrations[ci])
       IN  /\ db' = o.db
           /\ IF o.err
              THEN /\ pc' = "failed"
                   /\ result' = "commit"
                   /\ returned' = CommitFailed(StoreRefused)
                   /\ ci' = ci
              ELSE /\ ci' = ci + 1
                   /\ pc' = IF ci = Len(appliedMigrations) THEN "done" ELSE "committing"
                   /\ result' = IF ci = Len(appliedMigrations) THEN "ok" ELSE "none"
                   /\ UNCHANGED returned
    /\ UNCHANGED <<dir, cli, ctx, other, call, options, pendingMigrations, mi, oi, migrationOperations,
                   appliedOperations, appliedMigrations, rollbackList, ri, clock, runs,
                   edits, pre, prev, dirty, execLog, compLog>>

\* The environment, between runs: a file of the folder is written or removed.
WriteFile(name, content) ==
    /\ Idle
    /\ edits < MaxEdits
    /\ ~(name \in DOMAIN dir /\ dir[name] = content)
    /\ dir' = [n \in DOMAIN dir \cup {name} |-> IF n = name THEN content ELSE dir[n]]
    /\ edits' = edits + 1
    /\ dirty' = TRUE
    /\ UNCHANGED <<db, cli, ctx, other, call, pc, options, pendingMigrations, mi, oi,
                   migrationOperations,
                   appliedOperations, appliedMigrations, rollbackList, ri, ci, result,
                   returned, clock, runs, pre, prev, execLog, compLog>>

RemoveFile(name) ==
    /\ Idle
    /\ edits < MaxEdits
    /\ name \in DOMAIN dir
    /\ dir' = [n \in DOMAIN dir \ {name} |-> dir[n]]
    /\ edits' = edits + 1
    /\ dirty' = TRUE
    /\ UNCHANGED <<db, cli, ctx, other, call, pc, options, pendingMigrations, mi, oi,
                   migrationOperations,
                   appliedOperations, appliedMigrations, rollbackList, ri, ci, result,
                   returned, clock, runs, pre, prev, execLog, compLog>>

Next ==
    \/ \E force, auto \in BOOLEAN : StartRun(force, auto)
    \/ ApplyOp
    \/ RollbackStep
    \/ CommitStep
    \/ \E name \in FileNames, content \in Contents : WriteFile(name, content)
    \/ \E name \in FileNames : RemoveFile(name)

Spec == Init /\ [][Next]_vars

(***************************************************************************)
(* The program on migrations whose documents hold the markers NOW() and    *)
(* SHA256(field).                                                          *)
(***************************************************************************)
\* A JSON number: a value that is no string.
Number7 == <<307>>

\* "SHA256( v )" and "SHA256(u)"; the documents have no field u.
HashOfV == Sha256Prefix \o <<32, 118, 32>> \o Sha256Suffix

HashOfU == Sha256Prefix \o <<117>> \o Sha256Suffix

\* "SHA256(t)".
HashOfT == Sha256Prefix \o <<116>> \o Sha256Suffix

OpAddPlain ==
    [type |-> "addDocument", name |-> "a",
     options |-> [document |-> [_key |-> Str1, v |-> Str1]]]

OpAddMarkers ==
    [type |-> "addDocument", name |-> "a",
     options |-> [document |-> [_key |-> Str2, v |-> Str1, w |-> HashOfV, t |-> NowMarker]]]

OpAddHashOfAbsent ==
    [type |-> "addDocument", name |-> "a",
     options |-> [document |-> [_key |-> Str2, w |-> HashOfU]]]

OpAddHashOfNumber ==
    [type |-> "addDocument", name |-> "a",
     options |-> [document |-> [_key |-> Str2, v |-> Number7, w |-> HashOfV]]]

OpAddHashOfNow ==
    [type |-> "addDocument", name |-> "a",
     options |-> [document |-> [_key |-> Str2, t |-> NowMarker, w |-> HashOfT]]]

OpUpdateMarkers ==
    [type |-> "updateDocument", name |-> "a",
     options |-> [_key |-> StrK, v |-> Str2, w |-> HashOfV, t |-> NowMarker]]

OpUpdateHashOfAbsent ==
    [type |-> "updateDocument", name |-> "a",
     options |-> [_key |-> StrK, w |-> HashOfU]]

MigAddMarkers == Mig(<<OpAddPlain, OpAddMarkers>>, <<>>)

MigAddHashOfAbsent == Mig(<<OpAddPlain, OpAddHashOfAbsent>>, <<>>)

MigAddHashOfNumber == Mig(<<OpAddPlain, OpAddHashOfNumber>>, <<>>)

MigAddHashOfNow == Mig(<<OpAddPlain, OpAddHashOfNow>>, <<>>)

MigUpdateMarkers == Mig(<<OpUpdateMarkers, OpDeleteDocument>>, <<>>)

MigUpdateHashOfAbsent == Mig(<<OpUpdateHashOfAbsent>>, <<>>)

DocContents ==
    {MigAddMarkers, MigAddHashOfAbsent, MigAddHashOfNumber, MigAddHashOfNow,
     MigUpdateMarkers, MigUpdateHashOfAbsent, MigSetup}

DocDirectories == UNION {[S -> DocContents] : S \in SUBSET FileNames}

InitDoc ==
    /\ dir \in DocDirectories
    /\ db \in InitDbs
    /\ cli = NoCli
    /\ InitRun
    /\ call = NoCall

NextDoc ==
    \/ \E force, auto \in BOOLEAN : StartRun(force, auto)
    \/ ApplyOp
    \/ RollbackStep
    \/ CommitStep
    \/ \E name \in FileNames, content \in DocContents : WriteFile(name, content)
    \/ \E name \in FileNames : RemoveFile(name)

SpecDoc == InitDoc /\ [][NextDoc]_vars

(***************************************************************************)
(* The command line tool (cmd/migrator/main.go): MigrateDatabase creates   *)
(* the database when it is missing and calls MigrateArangoDatabase, with   *)
(* AutoRollback left at its zero value.                                    *)
(***************************************************************************)
\* Lines 196-200: --dry-run on a database that does not exist returns at once.
ReturnsBeforeCreate(exists, dryRun) == ~exists /\ dryRun

\* Mutant: only the first check of the option is made.
RunsMigrations_Always(dryRun) == TRUE

\* Lines 224-230: with --dry-run the function returns before it calls the library.
RunsMigrations(dryRun) == ~dryRun

MigrateDatabase(dryRun, force) ==
    /\ Idle
    /\ cli.calls < MaxRuns
    /\ IF ReturnsBeforeCreate(cli.exists, dryRun)
       THEN /\ cli' = [cli EXCEPT !.calls = @ + 1, !.dryRun = dryRun]
            /\ UNCHANGED <<dir, db, ctx, other, call, pc, options, pendingMigrations, mi, oi,
                           migrationOperations, appliedOperations, appliedMigrations,
                           rollbackList, ri, ci, result, returned, clock, runs, edits,
                           pre, prev, dirty, execLog, compLog>>
       ELSE /\ cli' = [exists |-> TRUE, calls |-> cli.calls + 1, dryRun |-> dryRun]
            /\ IF RunsMigrations(dryRun)
               THEN Run(force, FALSE) /\ UNCHANGED <<other, call>>
               ELSE UNCHANGED <<dir, db, ctx, other, call, pc, options, pendingMigrations, mi, oi,
                                migrationOperations, appliedOperations,
                                appliedMigrations, rollbackList, ri, ci, result,
                                returned, clock, runs, edits, pre, prev, dirty,
                                execLog, compLog>>

CliContents == {MigSetup, MigDocs, MigCollThenInvalid, MigEmptyUp}

CliDirectories == UNION {[S -> CliContents] : S \in SUBSET FileNames}

\* A database that does not exist has nothing in it.
InitCli ==
    /\ dir \in CliDirectories
    /\ cli \in {[exists |-> e, calls |-> 0, dryRun |-> FALSE] : e \in BOOLEAN}
    /\ db \in IF cli.exists THEN InitDbs ELSE {EmptyDb}
    /\ InitRun
    /\ call = NoCall

NextCli ==
    \/ \E dryRun, force \in BOOLEAN : MigrateDatabase(dryRun, force)
    \/ ApplyOp
    \/ RollbackStep
    \/ CommitStep
    \/ \E name \in FileNames, content \in CliContents : WriteFile(name, content)
    \/ \E name \in FileNames : RemoveFile(name)

SpecCli == InitCli /\ [][NextCli]_vars

(***************************************************************************)
(* The program on folders that hold an entry without the .json suffix.     *)
(***************************************************************************)
DirNames == {File2, File10, FileNotes}

DirContents == {MigSetup, MigDocs, MigCollThenInvalid, MigEmptyUp}

\* What the entry without the suffix may hold: no JSON, or a migration.
NotesContents == {Garbage, MigSetup}

DirDirectories ==
    UNION {{d \in [S -> DirContents \cup NotesContents] :
                \A name \in S : d[name] \in IF name = FileNotes THEN NotesContents
                                                              ELSE DirContents} :
           S \in SUBSET DirNames}

InitDir ==
    /\ dir \in DirDirectories
    /\ db \in InitDbs
    /\ cli = NoCli
    /\ InitRun
    /\ call = NoCall

NextDir ==
    \/ \E force, auto \in BOOLEAN : StartRun(force, auto)
    \/ ApplyOp
    \/ RollbackStep
    \/ CommitStep
    \/ \E name \in {File2, File10}, content \in DirContents : WriteFile(name, content)
    \/ \E content \in NotesContents : WriteFile(FileNotes, content)
    \/ \E name \in DirNames : RemoveFile(name)

SpecDir == InitDir /\ [][NextDir]_vars

(***************************************************************************)
(* The program called with a context that its caller cancels while the run *)
(* goes: between two operations, two compensation steps or two records.    *)
(***************************************************************************)
Cancel ==
    /\ pc \in {"applying", "compensating", "committing"}
    /\ ~ctx.done
    /\ ctx' = [done |-> TRUE, at |-> pc]
    /\ UNCHANGED <<dir, db, cli, other, call, pc, options, pendingMigrations, mi, oi,
                   migrationOperations, appliedOperations, appliedMigrations,
                   rollbackList, ri, ci, result, returned, clock, runs, edits, pre,
                   prev, dirty, execLog, compLog>>

CtxContents == {MigSetup, MigDocs, MigCollThenInvalid, MigTeardown}

CtxDirectories == UNION {[S -> CtxContents] : S \in SUBSET FileNames}

InitCtx ==
    /\ dir \in CtxDirectories
    /\ db \in InitDbs
    /\ cli = NoCli
    /\ InitRun
    /\ call = NoCall

NextCtx ==
    \/ \E force, auto \in BOOLEAN : StartRun(force, auto)
    \/ ApplyOp
    \/ RollbackStep
    \/ CommitStep
    \/ Cancel
    \/ \E name \in FileNames, content \in CtxContents : WriteFile(name, content)
    \/ \E name \in FileNames : RemoveFile(name)

SpecCtx == InitCtx /\ [][NextCtx]_vars

(***************************************************************************)
(* The run as a computation that goes on: MigrateArangoDatabase is one     *)
(* goroutine of straight loops, and every store call returns, so a step    *)
(* of the apply loop, of autoRollback or of the commit loop that can be    *)
(* taken is taken.  The caller and the folder's editor owe nothing.        *)
(***************************************************************************)
SpecLive ==
    /\ InitCtx
    /\ [][NextCtx]_vars
    /\ WF_vars(ApplyOp)
    /\ WF_vars(RollbackStep)
    /\ WF_vars(CommitStep)

(***************************************************************************)
(* The program on a folder that another process writes to while the run    *)
(* reads it: a file is rewritten after getFileSHA256 has read it and       *)
(* before os.ReadFile reads it.                                            *)
(***************************************************************************)
StartRunWhileRewritten(force, auto, name, content) ==
    /\ name \in DOMAIN dir
    /\ dir[name] # content
    /\ RunWhileRewritten(force, auto, [n \in {name} |-> content])
    /\ UNCHANGED <<cli, other, call>>

RaceContents == {MigSetup, MigDocs, MigCollThenInvalid}

RaceDirectories == UNION {[S -> RaceContents] : S \in SUBSET FileNames}

InitRace ==
    /\ dir \in RaceDirectories
    /\ db \in InitDbs
    /\ cli = NoCli
    /\ InitRun
    /\ call = NoCall

NextRace ==
    \/ \E force, auto \in BOOLEAN : StartRun(force, auto)
    \/ \E force, auto \in BOOLEAN, name \in FileNames, content \in RaceContents :
          StartRunWhileRewritten(force, auto, name, content)
    \/ ApplyOp
    \/ RollbackStep
    \/ CommitStep
    \/ \E name \in FileNames, content \in RaceContents : WriteFile(name, content)
    \/ \E name \in FileNames : RemoveFile(name)

SpecRace == InitRace /\ [][NextRace]_vars

(***************************************************************************)
(* Two processes call MigrateArangoDatabase on the same database and the   *)
(* same folder.  The program takes no lock and no lease: the steps of the  *)
(* two calls interleave at the store calls.  The second call is the same   *)
(* program, with its local variables held in the record other.             *)
(***************************************************************************)
\* What a step of the second call leaves alone.
FirstRunUnchanged ==
    UNCHANGED <<dir, cli, ctx, call, pc, options, pendingMigrations, mi, oi,
                migrationOperations, appliedOperations, appliedMigrations,
                rollbackList, ri, ci, result, returned, runs, edits, pre, prev, dirty,
                execLog, compLog>>

\* MigrateArangoDatabase up to the apply loop (lines 325-341), second call.
\* The second process makes one call; during is the number of the first
\* process's call that is under way when it is made (0: none is).
OtherStartRun(force, auto) ==
    /\ other.pc = "idle"
    /\ LET o == [Force |-> force, AutoRollback |-> auto]
           d == EnsureMigrationCollection(db)
           c == collectPendingMigrations(d, dir, NoRewrite, o)
       IN  /\ db' = d
           /\ other' = [NoOtherRun EXCEPT
                  !.options = o,
                  !.pendingMigrations = c.pending,
                  !.pc = IF c.err # "none" THEN "failed"
                         ELSE IF Len(c.pending) = 0 THEN "done"
                         ELSE "applying",
                  !.result = IF c.err # "none" THEN c.err
                             ELSE IF Len(c.pending) = 0 THEN "ok"
                             ELSE "none",
                  !.during = IF pc \in {"applying", "compensating", "committing"}
                              THEN runs ELSE 0]
    /\ UNCHANGED clock
    /\ FirstRunUnchanged

\* One iteration of the inner apply loop (lines 353-421) and the end of the
\* outer iteration (lines 423-430), second call.
OtherApplyOp ==
    /\ other.pc = "applying"
    /\ LET pendingMigration == other.pendingMigrations[other.mi]
           operation == pendingMigration.Migration.up[other.oi]
           orders == IF operation.type = "addDocument" /\ Has(operation.options, "document")
                     THEN KeyOrders(operation.options.document)
                     ELSE {<<>>}
       IN  \E order \in orders :
           LET r == Dispatch(db, operation, order, clock)
               operationResult ==
                   [type |-> operation.type, name |-> operation.name,
                    options |-> OptionsAfter(operation, r),
                    result |-> r.result, rollbackData |-> r.rollbackData]
               legacyOperation ==
                   [type |-> operation.type, name |-> operation.name,
                    options |-> OptionsAfter(operation, r),
                    result |-> NoMap, rollbackData |-> NoMap]
               toRollback == RollbackArgument(other.options.AutoRollback,
                                              other.appliedOperations, legacyOperation)
               lastOp == other.oi = Len(pendingMigration.Migration.up)
               lastMig == other.mi = Len(other.pendingMigrations)
               logged == Append(other.execLog,
                             [migration |-> pendingMigration.MigrationNumber,
                              index |-> other.oi, type |-> operation.type,
                              err |-> r.err, stored |-> r.stored])
           IN  /\ db' = r.db
               /\ other' =
                    IF r.panic
                    THEN [other EXCEPT !.execLog = logged, !.pc = "failed",
                                       !.result = "panic"]
                    ELSE IF r.err
                    THEN [other EXCEPT !.execLog = logged,
                                       !.rollbackList = toRollback,
                                       !.ri = Len(toRollback),
                                       !.pc = AfterFailure(toRollback),
                                       !.result = IF Len(toRollback) = 0
                                                  THEN "operation" ELSE "none"]
                    ELSE IF lastOp
                    THEN [other EXCEPT !.execLog = logged,
                                       !.appliedOperations = Append(@, operationResult),
                                       !.appliedMigrations = Append(@,
                                           NewAppliedMigration(pendingMigration, clock,
                                               Append(other.migrationOperations,
                                                      operationResult))),
                                       !.migrationOperations = <<>>,
                                       !.mi = @ + 1,
                                       !.oi = 1,
                                       !.pc = AfterMigration(lastMig)]
                    ELSE [other EXCEPT !.execLog = logged,
                                       !.appliedOperations = Append(@, operationResult),
                                       !.migrationOperations = Append(@, operationResult),
                                       !.oi = @ + 1]
    /\ clock' = clock + 1
    /\ FirstRunUnchanged

\* One iteration of the loop of autoRollback (lines 450-500) and the return
\* (lines 390-411), second call.
OtherRollbackStep ==
    /\ other.pc = "compensating"
    /\ LET operation == other.rollbackList[other.ri]
           o == RollbackOne(db, operation)
       IN  /\ db' = o.db
           /\ other' =
                IF o.err
                THEN [other EXCEPT !.pc = "failed", !.result = ReturnAfterRollback(TRUE)]
                ELSE [other EXCEPT !.ri = @ - 1,
                                   !.pc = IF other.ri = 1 THEN "failed" ELSE "compensating",
                                   !.result = IF other.ri = 1
                                              THEN ReturnAfterRollback(FALSE) ELSE "none"]
    /\ UNCHANGED clock
    /\ FirstRunUnchanged

\* One iteration of the commit loop (lines 433-439) and the return, second call.
OtherCommitStep ==
    /\ other.pc = "committing"
    /\ LET o == AppendRecord(db, other.appliedMigrations[other.ci])
           last == other.ci = Len(other.appliedMigrations)
       IN  /\ db' = o.db
           /\ other' =
                IF o.err
                THEN [other EXCEPT !.pc = "failed", !.result = "commit"]
                ELSE [other EXCEPT !.ci = @ + 1,
                                   !.pc = IF last THEN "done" ELSE "committing",
                                   !.result = IF last THEN "ok" ELSE "none"]
    /\ UNCHANGED clock
    /\ FirstRunUnchanged

TwoContents == {MigSetup, MigDocs}

TwoDirectories == UNION {[S -> TwoContents] : S \in SUBSET FileNames}

InitTwo ==
    /\ dir \in TwoDirectories
    /\ db \in InitDbs
    /\ cli = NoCli
    /\ InitRun
    /\ call = NoCall

NextTwo ==
    \/ \E force, auto \in BOOLEAN : StartRun(force, auto)
    \/ ApplyOp
    \/ RollbackStep
    \/ CommitStep
    \/ \E force, auto \in BOOLEAN : OtherStartRun(force, auto)
    \/ OtherApplyOp
    \/ OtherRollbackStep
    \/ OtherCommitStep

SpecTwo == InitTwo /\ [][NextTwo]_vars

(***************************************************************************)
(* getSlice.  A Go value carries its dynamic type.  A string is one byte   *)
(* long and is held as that byte; an element of a slice is held with its   *)
(* type, which for a []string or a []int is the element type of the slice. *)
(***************************************************************************)
GoString(b) == [type |-> "string", value |-> b]

GoInt(n) == [type |-> "int", value |-> n]

\* The nil interface value.
GoNil == [type |-> "nil", value |-> 0]

GoSlice(type, nil, items) == [type |-> type, nil |-> nil, items |-> items]

\* The type []T.
SliceOf(T) == IF T = "string" THEN "[]string" ELSE "[]int"

InterfaceSlice == "[]interface {}"

\* Lines 1236-1239, 1248-1250, 1255-1257: return nil, false.
NilFalse == [slice |-> NilSlice, ok |-> FALSE]

\* Lines 1252-1261: the loop over the elements of the []interface{}.
RECURSIVE ConvertElements(_, _, _, _)
ConvertElements(T, ifaceSlice, i, typedResult) ==
    IF i > Len(ifaceSlice)
    THEN [slice |-> [nil |-> FALSE, items |-> typedResult], ok |-> TRUE]
    ELSE IF ifaceSlice[i].type # T
    THEN NilFalse
    ELSE ConvertElements(T, ifaceSlice, i + 1, Append(typedResult, ifaceSlice[i].value))

\* Mutant: only a value that is a []T already is accepted.
getSlice_DirectOnly(T, m, key) ==
    IF key \notin DOMAIN m THEN NilFalse
    ELSE LET raw == m[key]
         IN  IF raw.type = SliceOf(T)
             THEN [slice |-> [nil |-> raw.nil,
                              items |-> [i \in DOMAIN raw.items |-> raw.items[i].value]],
                   ok |-> TRUE]
             ELSE NilFalse

\* Lines 1235-1262.
getSlice(T, m, key) ==
    IF key \notin DOMAIN m THEN NilFalse
    ELSE LET raw == m[key]
         IN  IF raw.type = SliceOf(T)
             THEN [slice |-> [nil |-> raw.nil,
                              items |-> [i \in DOMAIN raw.items |-> raw.items[i].value]],
                   ok |-> TRUE]
             ELSE IF raw.type # InterfaceSlice
             THEN NilFalse
             ELSE ConvertElements(T, raw.items, 1, <<>>)

\* The sequences over S of length at most n.
SeqsUpTo(S, n) == UNION {[1..k -> S] : k \in 0..n}

SliceKeys == {"strings"}

SliceTypes == {"string", "int"}

\* Values of the map: no slice, a []string, a []int (nil ones among them),
\* and a []interface{} as the JSON decoder makes it.
SliceValues ==
    {GoString(97), GoInt(1), GoNil}
    \cup {GoSlice("[]string", FALSE, items) :
              items \in SeqsUpTo({GoString(97), GoString(98)}, MaxSlice)}
    \cup {GoSlice("[]int", FALSE, items) :
              items \in SeqsUpTo({GoInt(1), GoInt(2)}, MaxSlice)}
    \cup {GoSlice("[]string", TRUE, <<>>), GoSlice("[]int", TRUE, <<>>)}
    \cup {GoSlice(InterfaceSlice, FALSE, items) :
              items \in SeqsUpTo({GoString(97), GoString(98), GoInt(1), GoNil}, MaxSlice)}

SliceMaps == UNION {[S -> SliceValues] : S \in SUBSET SliceKeys}

\* The return of a call of getSlice.
ReturnGetSlice ==
    /\ call.pc = "called"
    /\ LET r == getSlice(call.T, call.m, call.key)
       IN  call' = [call EXCEPT !.pc = "returned", !.slice = r.slice, !.ok = r.ok]
    /\ UNCHANGED <<dir, db, cli, ctx, other, pc, options, pendingMigrations, mi, oi,
                   migrationOperations, appliedOperations, appliedMigrations,
                   rollbackList, ri, ci, result, returned, clock, runs, edits, pre,
                   prev, dirty, execLog, compLog>>

InitSlice ==
    /\ dir = <<>>
    /\ db = EmptyDb
    /\ cli = NoCli
    /\ InitRun
    /\ call \in {[pc |-> "called", T |-> T, m |-> m, key |-> key, slice |-> NilSlice,
                   ok |-> FALSE] :
                     T \in SliceTypes, m \in SliceMaps, key \in SliceKeys \cup {"missing"}}

NextSlice == ReturnGetSlice

SpecSlice == InitSlice /\ [][NextSlice]_vars

(***************************************************************************)
(* Vocabulary of the properties.                                           *)
(***************************************************************************)
Recognized(name) == HasSuffix(name, JsonSuffix)

IdOf(name) == TrimSuffix(name, JsonSuffix)

\* The content of the store apart from the migration collection.
StoreContent(d) ==
    [colls |-> d.colls, indexes |-> d.indexes, graphs |-> d.graphs,
     edgeDefs |-> d.edgeDefs, docs |-> d.docs]

\* The folder is still the one the current run read.
RunOnThisFolder == runs >= 1 /\ ~dirty

\* File name has a record, written before the run, whose hash is not the file's.
TamperedAtStart(name) ==
    /\ name \in DOMAIN dir
    /\ Recognized(name)
    /\ LedgerHas(pre, IdOf(name))
    /\ LedgerRecord(pre, IdOf(name)).sha256 # getFileSHA256(dir[name])

TamperedFiles == {name \in DOMAIN dir : TamperedAtStart(name)}

\* File name parses but has an empty up list or a non-empty down list.
StructurallyInvalid(name) ==
    /\ name \in DOMAIN dir
    /\ Recognized(name)
    /\ dir[name].parses
    /\ (Len(dir[name].up) = 0 \/ Len(dir[name].down) > 0)

\* File name is recognized, has no record and is a well-formed migration.
ValidPending(name) ==
    /\ name \in DOMAIN dir
    /\ Recognized(name)
    /\ ~LedgerHas(pre, IdOf(name))
    /\ dir[name].parses
    /\ Len(dir[name].up) > 0
    /\ Len(dir[name].down) = 0

PendingIds == {pendingMigrations[j].MigrationNumber : j \in DOMAIN pendingMigrations}

NothingExecutedNothingRecorded == execLog = <<>> /\ db.ledger = pre.ledger

Reverse(q) == [j \in 1..Len(q) |-> q[Len(q) + 1 - j]]

\* Every operation of pending migration j was executed and returned no error.
AllOperationsSucceeded(j) ==
    \A k \in 1..Len(pendingMigrations[j].Migration.up) :
        \E e \in DOMAIN execLog :
            /\ execLog[e].migration = pendingMigrations[j].MigrationNumber
            /\ execLog[e].index = k
            /\ ~execLog[e].err

(***************************************************************************)
(* C1.  Batch scope (AutoRollback = TRUE): when an operation failed and    *)
(* the compensation ran to its end, the run returned an error, the Ledger  *)
(* has no record of a migration of the run, and the content of the store   *)
(* is what it was before the run.                                          *)
(***************************************************************************)
C1_BatchAtomicity ==
    (runs >= 1 /\ options.AutoRollback /\ pc = "failed" /\ result = "operation")
        => /\ \A id \in PendingIds : ~LedgerHas(db, id)
           /\ StoreContent(db) = StoreContent(pre)

(***************************************************************************)
(* C2.  Per-migration scope (AutoRollback = FALSE): when a migration fails *)
(* after earlier pending migrations of the run completed, the Ledger       *)
(* records of those earlier migrations exist after the run.                *)
(***************************************************************************)
C2_EarlierRecordsStand ==
    (runs >= 1 /\ ~options.AutoRollback /\ pc = "failed"
       /\ result \in {"operation", "rollback"})
        => \A j \in 1..(mi - 1) : LedgerHas(db, pendingMigrations[j].MigrationNumber)

(***************************************************************************)
(* C3.  Per-migration scope: when operation k of migration M fails, the    *)
(* compensated operations are exactly operations 1..k-1 of M, in reverse   *)
(* order of execution; operation k is not compensated.                     *)
(***************************************************************************)
C3_CompensatesEarlierOpsOfM ==
    (runs >= 1 /\ ~options.AutoRollback /\ pc = "failed" /\ result = "operation")
        => [j \in 1..Len(compLog) |-> compLog[j].operation] = Reverse(migrationOperations)

(***************************************************************************)
(* C4.  Idempotence: after a run that returned success, a second run with  *)
(* the same Force setting against the unchanged folder and store executes  *)
(* no operation, returns success and leaves the Ledger, and the whole      *)
(* database, as it was.                                                    *)
(***************************************************************************)
C4_Idempotence ==
    (runs >= 2 /\ prev.result = "ok" /\ ~prev.edited /\ prev.options.Force = options.Force)
        => /\ pc = "done"
           /\ result = "ok"
           /\ execLog = <<>>
           /\ db = pre

C4_Witness ==
    /\ runs = 2
    /\ prev.result = "ok"
    /\ ~prev.edited
    /\ prev.options.Force = options.Force
    /\ pc = "done"
    /\ \E r \in db.ledger : "operationResults" \in DOMAIN r /\ Len(r.operationResults) > 1

(***************************************************************************)
(* C5, as claimed.  Without Force, a file whose hash differs from its      *)
(* record makes the run fail with the integrity error, with no operation   *)
(* executed and no record written.                                         *)
(***************************************************************************)
C5_TamperAlwaysIntegrityError ==
    (RunOnThisFolder /\ ~options.Force /\ TamperedFiles # {})
        => /\ pc = "failed"
           /\ result = "integrity"
           /\ NothingExecutedNothingRecorded

\* The files without a record that do not parse or validate and are listed
\* before every tampered file.
InvalidBeforeTampered ==
    {y \in DOMAIN dir :
        /\ Recognized(y)
        /\ ~LedgerHas(pre, IdOf(y))
        /\ ValidateMigration(dir[y]) # "none"
        /\ \A x \in TamperedFiles : StrLess(y, x)}

(***************************************************************************)
(* C5, amended.  Without Force, a file whose hash differs from its record  *)
(* makes the run fail with no operation executed and no record written;    *)
(* the error is the integrity error unless a file without a record that is *)
(* listed before every tampered file fails to parse or validate, and then  *)
(* it is that file's error.                                                *)
(***************************************************************************)
C5_TamperFailsRun ==
    (RunOnThisFolder /\ ~options.Force /\ TamperedFiles # {})
        => /\ pc = "failed"
           /\ NothingExecutedNothingRecorded
           /\ IF InvalidBeforeTampered = {} THEN result = "integrity"
              ELSE result \in {ValidateMigration(dir[y]) : y \in InvalidBeforeTampered}

C5_Witness ==
    /\ RunOnThisFolder
    /\ ~options.Force
    /\ pc = "failed"
    /\ result = "integrity"
    /\ \E x \in TamperedFiles : \E y \in DOMAIN dir : ValidPending(y) /\ StrLess(y, x)

(***************************************************************************)
(* C6.  With Force, a file whose hash differs from its record does not     *)
(* fail the run, is not in the pending set, has none of its operations     *)
(* executed, and keeps its record unchanged.                               *)
(***************************************************************************)
C6_ForceSkipsTampered ==
    (RunOnThisFolder /\ options.Force)
        => /\ result # "integrity"
           /\ \A x \in TamperedFiles :
                /\ IdOf(x) \notin PendingIds
                /\ \A e \in DOMAIN execLog : execLog[e].migration # IdOf(x)
                /\ LedgerRecord(pre, IdOf(x)) \in db.ledger

C6_Witness ==
    /\ RunOnThisFolder
    /\ options.Force
    /\ TamperedFiles # {}
    /\ pc = "done"
    /\ execLog # <<>>

(***************************************************************************)
(* C7.  Pending migrations are applied in ascending order of the numeric   *)
(* prefix of their file names: of two executed operations, the later one   *)
(* never belongs to a migration with a smaller numeric prefix.             *)
(***************************************************************************)
C7_NumericOrder ==
    \A e1, e2 \in DOMAIN execLog :
        e1 < e2 => NumericPrefix(execLog[e1].migration) <= NumericPrefix(execLog[e2].migration)

(***************************************************************************)
(* C8, as claimed.  A recognized file with an empty up list or a non-empty *)
(* down list makes the run fail with the validation error before any       *)
(* operation is executed and without a record written.                     *)
(***************************************************************************)
C8_AnyInvalidFileFailsValidation ==
    (RunOnThisFolder /\ \E name \in DOMAIN dir : StructurallyInvalid(name))
        => /\ pc = "failed"
           /\ result = "validation"
           /\ NothingExecutedNothingRecorded

\* The structurally invalid files that have no record.
InvalidPending ==
    {name \in DOMAIN dir : StructurallyInvalid(name) /\ ~LedgerHas(pre, IdOf(name))}

\* The files listed before every file of InvalidPending that fail on their
\* own: a tampered file without Force, or a file without a record that does
\* not parse.
FailingBeforeInvalid ==
    {y \in DOMAIN dir :
        /\ Recognized(y)
        /\ \A x \in InvalidPending : StrLess(y, x)
        /\ \/ TamperedAtStart(y) /\ ~options.Force
           \/ ~LedgerHas(pre, IdOf(y)) /\ ~dir[y].parses}

(***************************************************************************)
(* C8, amended.  A recognized file that has no Ledger record and has an    *)
(* empty up list or a non-empty down list makes the run fail before any    *)
(* operation is executed and without a record written, also when valid     *)
(* pending migrations are listed before it; the error is the validation    *)
(* error unless a file listed before it fails the integrity check or does  *)
(* not parse.                                                              *)
(***************************************************************************)
C8_InvalidPendingFailsRun ==
    (RunOnThisFolder /\ InvalidPending # {})
        => /\ pc = "failed"
           /\ NothingExecutedNothingRecorded
           /\ IF FailingBeforeInvalid = {} THEN result = "validation"
              ELSE result \in {"integrity", "parse"}

C8_Witness ==
    /\ RunOnThisFolder
    /\ pc = "failed"
    /\ result = "validation"
    /\ \E x \in InvalidPending : \E y \in DOMAIN dir : ValidPending(y) /\ StrLess(y, x)

(***************************************************************************)
(* C9.  Ledger write timing: a record written by the current run belongs   *)
(* to a pending migration all of whose operations have returned without    *)
(* error and, in batch scope, every operation of every pending migration   *)
(* has; a run that started compensating has written no record.             *)
(***************************************************************************)
C9_LedgerWriteTiming ==
    /\ \A r \in db.ledger \ pre.ledger :
          \E j \in DOMAIN pendingMigrations :
              /\ pendingMigrations[j].MigrationNumber = r.key
              /\ AllOperationsSucceeded(j)
              /\ options.AutoRollback =>
                    \A j2 \in DOMAIN pendingMigrations : AllOperationsSucceeded(j2)
    /\ (pc = "compensating" \/ result \in {"operation", "rollback"})
          => db.ledger = pre.ledger

C9_Witness ==
    /\ options.AutoRollback
    /\ pc = "done"
    /\ Len(pendingMigrations) = 2
    /\ \A id \in PendingIds : LedgerHas(db, id) /\ ~LedgerHas(pre, id)

(***************************************************************************)
(* C10.  Ledger records are create-once: no step removes or changes a      *)
(* record, and no step makes two records with one key.                     *)
(***************************************************************************)
C10_RecordsCreateOnce ==
    [][/\ db.ledger \subseteq db'.ledger
       /\ \A r1, r2 \in db'.ledger : r1.key = r2.key => r1 = r2]_vars

\* A second run added a record to the ledger that held the first run's record.
C10_Witness ==
    /\ runs = 2
    /\ pc = "done"
    /\ \E r \in pre.ledger : "operationResults" \in DOMAIN r
    /\ db.ledger # pre.ledger
    /\ pre.ledger \subseteq db.ledger

\* The twelve operation types of the specification's dispatch table.
SupportedTypes ==
    {"createCollection", "deleteCollection", "createPersistentIndex", "createGeoIndex",
     "deleteIndex", "createGraph", "deleteGraph", "addEdgeDefinition",
     "deleteEdgeDefinition", "addDocument", "updateDocument", "deleteDocument"}

\* The operation the apply loop is about to execute.
CurrentOperation == pendingMigrations[mi].Migration.up[oi]

LastExecuted == execLog[Len(execLog)]

(***************************************************************************)
(* C11.  The step that executes an operation whose type is outside the     *)
(* table leaves the database as it was, and the operation fails with the   *)
(* unsupported-operation error that names the type; the run does not go on *)
(* to the next operation.                                                  *)
(***************************************************************************)
C11_UnsupportedTypeFails ==
    [][(pc = "applying" /\ CurrentOperation.type \notin SupportedTypes)
        => /\ db' = db
           /\ Len(execLog') = Len(execLog) + 1
           /\ execLog'[Len(execLog')].err
           /\ ~execLog'[Len(execLog')].stored
           /\ execLog'[Len(execLog')].error = UnsupportedOperationError(CurrentOperation.type)
           /\ pc' \in {"compensating", "failed"}]_vars

\* An operation outside the table failed after an operation that changed the store.
C11_Witness ==
    /\ Len(execLog) >= 2
    /\ LastExecuted.type \notin SupportedTypes
    /\ LastExecuted.error = UnsupportedOperationError(LastExecuted.type)
    /\ execLog[1].stored
    /\ pc \in {"compensating", "failed"}

(***************************************************************************)
(* C12.  An executed operation whose type is one of the twelve types of    *)
(* the table reaches its handler: it is never rejected with the            *)
(* unsupported-operation error.                                            *)
(***************************************************************************)
C12_TableTypesDispatched ==
    \A e \in DOMAIN execLog :
        execLog[e].type \in SupportedTypes
            => execLog[e].error # UnsupportedOperationError(execLog[e].type)

\* The recognized files of the folder that had no record when the run started.
FilesWithoutRecord ==
    {name \in DOMAIN dir : Recognized(name) /\ ~LedgerHas(pre, IdOf(name))}

\* The records the current run has written.
NewRecords == db.ledger \ pre.ledger

RECURSIVE Mentions(_, _)
Mentions(e, x) ==
    \/ e = x
    \/ Has(e, "cause") /\ Mentions(e.cause, x)

(***************************************************************************)
(* C14.  When the compensation fails, the error the run returns reports    *)
(* the failure of the operation that made the run fail and the failure of  *)
(* the compensation step.                                                  *)
(***************************************************************************)
C14_ReportsBothFailures ==
    (pc = "failed" /\ result = "rollback")
        => /\ Mentions(returned, compLog[Len(compLog)].error)
           /\ Mentions(returned, LastExecuted.error)

\* The entries of the folder that lack the .json suffix.
UnrecognizedEntries == {name \in DOMAIN dir : ~Recognized(name)}

(***************************************************************************)
(* C15.  A run on a folder without a recognized file returns success,      *)
(* leaves the migration collection in existence, executes no operation,    *)
(* writes no record and leaves the content of the store as it was.         *)
(***************************************************************************)
C15_NoRecognizedFile ==
    (RunOnThisFolder /\ UnrecognizedEntries = DOMAIN dir)
        => /\ pc = "done"
           /\ result = "ok"
           /\ returned = NoError
           /\ db.migColl
           /\ execLog = <<>>
           /\ db.ledger = pre.ledger
           /\ StoreContent(db) = StoreContent(pre)

\* A run on a folder that holds the unrecognized entry only, on a database
\* that had no migration collection.
C15_Witness ==
    /\ RunOnThisFolder
    /\ DOMAIN dir = {FileNotes}
    /\ ~pre.migColl
    /\ db.migColl
    /\ pc = "done"

\* The folder without its unrecognized entries.
RecognizedOnly == [name \in DOMAIN dir \ UnrecognizedEntries |-> dir[name]]

(***************************************************************************)
(* C16.  An entry without the .json suffix is passed over: the run fails   *)
(* at collection, or has the pending set, that a run on the folder without *)
(* the entry has; the entry is no pending migration and has no record.     *)
(***************************************************************************)
C16_UnrecognizedEntryIgnored ==
    RunOnThisFolder
        => LET c == collectPendingMigrations(EnsureMigrationCollection(pre),
                                             RecognizedOnly, NoRewrite, options)
           IN  /\ c.err # "none" => pc = "failed" /\ result = c.err
               /\ c.err = "none" => /\ pendingMigrations = c.pending
                                    /\ result \notin {"integrity", "parse", "validation"}
               /\ \A name \in UnrecognizedEntries :
                    /\ ~LedgerHas(db, name)
                    /\ \A j \in DOMAIN pendingMigrations :
                         pendingMigrations[j].FilePath # name

\* A run applied and recorded two migrations next to an unrecognized entry.
C16_Witness ==
    /\ RunOnThisFolder
    /\ DOMAIN dir = DirNames
    /\ pc = "done"
    /\ Len(pendingMigrations) = 2
    /\ Cardinality(NewRecords) = 2

\* The records without operationResults that the Ledger held when the run started.
LegacyRecords == {r \in pre.ledger : ~Has(r, "operationResults")}

(***************************************************************************)
(* C17.  A record without operationResults, with or without its file in    *)
(* the folder, is tolerated: the record stays as it is; when no file was   *)
(* changed after it was applied (or Force is set) and the files without a  *)
(* record are well-formed, the run does not fail while it collects; and a  *)
(* run that succeeds has added the record of every pending migration.      *)
(***************************************************************************)
C17_LegacyRecordTolerated ==
    (RunOnThisFolder /\ LegacyRecords # {})
        => /\ \A r \in LegacyRecords :
                /\ r \in db.ledger
                /\ \A q \in db.ledger : q.key = r.key => q = r
           /\ ((TamperedFiles = {} \/ options.Force)
                 /\ \A name \in FilesWithoutRecord : ValidPending(name))
                => result \notin {"integrity", "parse", "validation"}
           /\ pc = "done"
                => \A name \in FilesWithoutRecord : LedgerHas(db, IdOf(name))

\* A run added a record next to a record without operationResults whose
\* file is not in the folder.
C17_Witness ==
    /\ RunOnThisFolder
    /\ \E r \in LegacyRecords : \A name \in DOMAIN dir : IdOf(name) # r.key
    /\ pc = "done"
    /\ NewRecords # {}
    /\ LegacyRecords \subseteq db.ledger

\* The document an addDocument or updateDocument operation asks to write.
DocumentOf(operation) ==
    IF operation.type = "addDocument" THEN operation.options.document
    ELSE operation.options

\* Value v is the hash-of-field marker, and the field it names.
IsHashMarker(v) ==
    IsString(v) /\ HasPrefix(v, Sha256Prefix) /\ HasSuffix(v, Sha256Suffix)

MarkedField(v) ==
    FieldOfBytes(TrimSpace(TrimSuffix(TrimPrefix(v, Sha256Prefix), Sha256Suffix)))

\* The apply loop is about to execute an addDocument or updateDocument.
AtDocumentOperation ==
    pc = "applying" /\ CurrentOperation.type \in {"addDocument", "updateDocument"}

(***************************************************************************)
(* C18.  When an addDocument or updateDocument operation succeeds, the     *)
(* document in the store has, for every field the operation gives as the   *)
(* timestamp marker, the timestamp of the step, and for every field given  *)
(* as the hash marker of a sibling field with a string value, the SHA-256  *)
(* hex digest of that value.                                               *)
(***************************************************************************)
C18_MarkersSubstituted ==
    [][(AtDocumentOperation /\ Len(execLog') = Len(execLog) + 1
            /\ ~execLog'[Len(execLog')].err)
        => LET doc == DocumentOf(CurrentOperation)
               body == DocBody(db', CurrentOperation.name, doc["_key"])
           IN  \A k \in DOMAIN doc :
                 /\ doc[k] = NowMarker => body[k] = FormatRFC3339(clock)
                 /\ (/\ IsHashMarker(doc[k])
                     /\ Has(doc, MarkedField(doc[k]))
                     /\ IsString(doc[MarkedField(doc[k])]))
                        => body[k] = Sha256Hex(doc[MarkedField(doc[k])])]_vars

\* A hash marker of the document names a field that is absent or no string.
BadHashMarker(doc) ==
    \E k \in DOMAIN doc :
        /\ IsHashMarker(doc[k])
        /\ \/ ~Has(doc, MarkedField(doc[k]))
           \/ ~IsString(doc[MarkedField(doc[k])])

(***************************************************************************)
(* C19.  The step that executes an addDocument or updateDocument whose     *)
(* document has a hash marker of an absent or non-string field, on a       *)
(* collection that exists, fails with the substitution error and writes    *)
(* nothing; the run goes on to the compensation, or fails at once when     *)
(* there is nothing to compensate, and does not crash.                     *)
(***************************************************************************)
C19_BadMarkerFailsCleanly ==
    [][(AtDocumentOperation /\ BadHashMarker(DocumentOf(CurrentOperation))
            /\ CurrentOperation.name \in db.colls)
        => /\ db' = db
           /\ Len(execLog') = Len(execLog) + 1
           /\ execLog'[Len(execLog')].error = SubstitutionError
           /\ result' # "panic"
           /\ \/ pc' = "compensating"
              \/ pc' = "failed" /\ options.AutoRollback /\ appliedOperations = <<>>]_vars

(***************************************************************************)
(* C20.  An invocation of the tool with --dry-run changes nothing: the     *)
(* database is not created, the library is not called, no operation is     *)
(* executed, and the database, with its migration collection and its       *)
(* records, is what it was.                                                *)
(***************************************************************************)
C20_DryRunChangesNothing ==
    [][(cli'.calls = cli.calls + 1 /\ cli'.dryRun)
        => /\ cli'.exists = cli.exists
           /\ db' = db
           /\ runs' = runs
           /\ execLog' = execLog
           /\ pc' = pc]_vars

\* A dry run was the tool's first invocation, on a folder with a migration
\* to apply and a database that does not exist.
C20_Witness ==
    /\ cli.calls = 1
    /\ cli.dryRun
    /\ ~cli.exists
    /\ runs = 0
    /\ ~db.migColl
    /\ \E name \in DOMAIN dir : ValidPending(name)

\* The steps of the run state machine that every reading of it has: while
\* the run compensates, no record is written and no operation is executed;
\* the run ends compensated exactly when no compensation step failed, and
\* inconsistent when one failed; nothing of the run changes once it is done
\* or has failed, until another run is started.
CompensatingIsTheEnd ==
    /\ pc = "compensating"
         => /\ db'.ledger = db.ledger
            /\ execLog' = execLog
            /\ pc' \in {"compensating", "failed"}
    /\ (pc' = "failed" /\ result' \in {"operation", "rollback"})
         => /\ result' = "operation" <=> \A j \in DOMAIN compLog' : ~compLog'[j].err
            /\ result' = "rollback" <=> \E j \in DOMAIN compLog' : compLog'[j].err
    /\ (pc \in {"done", "failed"} /\ runs' = runs)
         => /\ db' = db
            /\ pc' = pc
            /\ result' = result
            /\ execLog' = execLog
            /\ compLog' = compLog

(***************************************************************************)
(* C21, as claimed.  The run state machine, with Done entered from         *)
(* Committing only.                                                        *)
(***************************************************************************)
C21_StateMachine ==
    [][/\ CompensatingIsTheEnd
       /\ (pc' = "done" /\ pc # "done") => pc = "committing"]_vars

(***************************************************************************)
(* C21, amended.  The run state machine, with Done entered from Committing *)
(* or, when the pending set is empty, at the start of the run.             *)
(***************************************************************************)
C21_StateMachineEmptyPending ==
    [][/\ CompensatingIsTheEnd
       /\ (pc' = "done" /\ (pc # "done" \/ runs' # runs))
            => \/ pc = "committing"
               \/ runs' = runs + 1 /\ pendingMigrations' = <<>> /\ execLog' = <<>>
                    /\ db'.ledger = db.ledger]_vars

\* A run ended inconsistent: a compensation step failed after another had succeeded.
C21_Witness ==
    /\ pc = "failed"
    /\ result = "rollback"
    /\ Len(compLog) >= 2
    /\ ~compLog[1].err
    /\ compLog[Len(compLog)].err

\* The run, in the batch scope, has met a failing operation.
BatchCompensation ==
    /\ options.AutoRollback
    /\ pc \in {"compensating", "failed"}
    /\ result \in {"none", "operation", "rollback"}
    /\ execLog # <<>>
    /\ execLog[Len(execLog)].err

(***************************************************************************)
(* C22.  In the batch scope the compensation steps taken are, in order,    *)
(* the results accumulated by the run last first: every operation          *)
(* executed before the failing one, of every migration of the run, and     *)
(* not the failing one; a compensation that ends without error has taken   *)
(* a step for each of them.                                                *)
(***************************************************************************)
C22_ReverseOfExecution ==
    BatchCompensation =>
        LET n == Len(execLog) - 1
        IN  /\ Len(appliedOperations) = n
            /\ \A k \in 1..n : /\ appliedOperations[k].type = execLog[k].type
                               /\ ~execLog[k].err
            /\ Len(compLog) <= n
            /\ \A j \in DOMAIN compLog : compLog[j].operation = appliedOperations[n + 1 - j]
            /\ result = "operation" => Len(compLog) = n

\* Operations of two migrations were compensated, the later migration's first.
C22_Witness ==
    /\ BatchCompensation
    /\ result = "operation"
    /\ Len(compLog) >= 2
    /\ execLog[1].migration # execLog[Len(execLog) - 1].migration
    /\ compLog[1].operation.type # compLog[Len(compLog)].operation.type

\* autoRollback has no inverse for the operation: its type is one of the
\* three deletions of structure, or a document operation whose prior state
\* was not captured.
IsIrreversible(operation) ==
    \/ operation.type \in {"deleteCollection", "deleteIndex", "deleteEdgeDefinition"}
    \/ /\ operation.type \in {"updateDocument", "deleteDocument"}
       /\ ~Has(operation.rollbackData, "originalDocument")

(***************************************************************************)
(* C23.  A compensation that comes to an operation without inverse makes   *)
(* the cannot-rollback error and stops: the store is left as it is, the    *)
(* operations before it in the list stay uncompensated, no record has      *)
(* been or is written, and the run ends with the rollback failure that     *)
(* holds that error.                                                       *)
(***************************************************************************)
C23_IrreversibleStops ==
    [][(pc = "compensating" /\ IsIrreversible(rollbackList[ri]))
         => /\ pc' = "failed"
            /\ result' = "rollback"
            /\ db' = db
            /\ db'.ledger = pre.ledger
            /\ ri' = ri
            /\ compLog' = Append(compLog,
                   [operation |-> rollbackList[ri], err |-> TRUE,
                    error |-> CannotRollback(rollbackList[ri].type)])
            /\ returned'.format \in {"failed to auto-rollback migrations: %v",
                                     "failed to rollback migration: %v"}
            /\ Mentions(returned', CannotRollback(rollbackList[ri].type))]_vars

\* The batch compensation undid one operation, then met one without inverse
\* while operations executed before it were still in the list.
C23_Witness ==
    /\ pc = "failed"
    /\ result = "rollback"
    /\ options.AutoRollback
    /\ Len(compLog) >= 2
    /\ ~compLog[1].err
    /\ IsIrreversible(compLog[Len(compLog)].operation)
    /\ ri >= 2

\* The operation the compensation is about to undo.
ToCompensate == rollbackList[ri]

\* The compensation is at a document update or deletion whose prior state
\* was captured, the store accepts writes to the collection and, for an
\* update, the document is still there under its key.
AtRestore ==
    /\ pc = "compensating"
    /\ ToCompensate.type \in {"updateDocument", "deleteDocument"}
    /\ Has(ToCompensate.rollbackData, "originalDocument")
    /\ ToCompensate.name \in db.colls
    /\ ToCompensate.type = "updateDocument"
         => DocExists(db, ToCompensate.name, ToCompensate.rollbackData.originalDocument["_key"])

(***************************************************************************)
(* C24.  The compensation of a document update or deletion that succeeded  *)
(* succeeds and leaves the document in the store with exactly the content  *)
(* captured before the operation.                                          *)
(***************************************************************************)
C24_RestoresPriorContent ==
    [][AtRestore
         => LET original == ToCompensate.rollbackData.originalDocument
            IN  /\ ~compLog'[Len(compLog')].err
                /\ DocExists(db', ToCompensate.name, original["_key"])
                /\ DocBody(db', ToCompensate.name, original["_key"]) = original]_vars

\* The compensation is at an addDocument whose collection is there.
AtAddedDocument ==
    /\ pc = "compensating"
    /\ ToCompensate.type = "addDocument"
    /\ ToCompensate.name \in db.colls

(***************************************************************************)
(* C25.  The compensation of an addDocument deletes the document whose     *)
(* identifier was captured; when none was captured it deletes the          *)
(* document whose key is the _key of the operation's document.             *)
(***************************************************************************)
C25_DeletesAddedDocument ==
    [][AtAddedDocument
         => IF Has(ToCompensate.result, "documentID")
            THEN DocExists(db, ToCompensate.name, ToCompensate.result.documentID)
                   => /\ ~compLog'[Len(compLog')].err
                      /\ ~DocExists(db', ToCompensate.name, ToCompensate.result.documentID)
            ELSE (/\ Has(ToCompensate.options, "document")
                  /\ Has(ToCompensate.options.document, "_key")
                  /\ DocExists(db, ToCompensate.name, ToCompensate.options.document["_key"]))
                   => /\ ~compLog'[Len(compLog')].err
                      /\ ~DocExists(db', ToCompensate.name,
                                    ToCompensate.options.document["_key"])]_vars

(***************************************************************************)
(* C26.  An operation whose store call did not succeed is reported as      *)
(* failed by its handler, whatever its type, and no result is accumulated  *)
(* for it.                                                                 *)
(***************************************************************************)
C26_StoreFailureReported ==
    [][execLog' # execLog /\ execLog' # <<>>
         => LET e == execLog'[Len(execLog')]
            IN  ~e.stored => /\ e.err
                             /\ appliedOperations' = appliedOperations]_vars

\* The operations of the pending migrations in the order of the two loops.
RECURSIVE PlanFrom(_, _, _)
PlanFrom(pending, i, j) ==
    IF i > Len(pending) THEN <<>>
    ELSE IF j > Len(pending[i].Migration.up) THEN PlanFrom(pending, i + 1, 1)
    ELSE <<[migration |-> pending[i].MigrationNumber, index |-> j,
            type |-> pending[i].Migration.up[j].type,
            name |-> pending[i].Migration.up[j].name,
            options |-> pending[i].Migration.up[j].options]>>
         \o PlanFrom(pending, i, j + 1)

Plan == PlanFrom(pendingMigrations, 1, 1)

CancelledWhileApplying == ctx.done /\ ctx.at = "applying"

(***************************************************************************)
(* C28.  After a cancellation between two operations no further operation  *)
(* acts on the store: the next one fails as an operation that failed, no   *)
(* result is accumulated for it, and each step of the compensation that    *)
(* follows does to the store what it does in a run that was not            *)
(* cancelled.                                                              *)
(***************************************************************************)
C28_CancellationCompensates ==
    [][CancelledWhileApplying
         => /\ pc = "applying"
                 => /\ StoreContent(db') = StoreContent(db)
                    /\ pc' \in {"compensating", "failed"}
                    /\ execLog'[Len(execLog')].err
                    /\ appliedOperations' = appliedOperations
            /\ pc = "compensating"
                 => /\ db' = RollbackOne(db, ToCompensate).db
                    /\ compLog'[Len(compLog')].err = RollbackOne(db, ToCompensate).err]_vars

\* The records the current run has written.
WrittenByRun == {r \in db.ledger : \E i \in 1..(ci - 1) : appliedMigrations[i] = r}

(***************************************************************************)
(* C29.  The type, the name and the options of every accumulated result,   *)
(* and of every result in a record the run writes, are those of the        *)
(* operation as it was parsed from the file.                               *)
(***************************************************************************)
C29_OperationUnchanged ==
    /\ \A k \in DOMAIN appliedOperations :
          /\ appliedOperations[k].type = Plan[k].type
          /\ appliedOperations[k].name = Plan[k].name
          /\ appliedOperations[k].options = Plan[k].options
    /\ \A i \in DOMAIN appliedMigrations :
          \A j \in DOMAIN appliedMigrations[i].operationResults :
             /\ appliedMigrations[i] \in WrittenByRun
             /\ pc = "done"
             => appliedMigrations[i].operationResults[j].options
                    = pendingMigrations[i].Migration.up[j].options

\* The run is between its start and its return.
Running == pc \in {"applying", "compensating", "committing"}

\* The iterations of the commit loop the run has made.
CommitSteps == IF result = "commit" THEN ci ELSE ci - 1

\* The run has made no more apply steps than the pending set has
\* operations, no more compensation steps than it has accumulated results,
\* and no more commit steps than there are pending migrations.
StepBounds ==
    /\ Len(execLog) <= Len(Plan)
    /\ Len(compLog) <= Len(appliedOperations)
    /\ CommitSteps <= Len(pendingMigrations)

(***************************************************************************)
(* C30.  Every run that has started comes to Done or Failed, and on the    *)
(* way makes at most one apply step per operation of the pending set, one  *)
(* compensation step per accumulated result and one commit step per        *)
(* pending migration.                                                      *)
(***************************************************************************)
C30_TerminatesWithinBounds ==
    /\ Running ~> (pc \in {"done", "failed"})
    /\ []StepBounds

\* What of the store d was there before the run began.
ThereBefore(d) ==
    [colls |-> d.colls \cap pre.colls, indexes |-> d.indexes \cap pre.indexes,
     graphs |-> d.graphs \cap pre.graphs, edgeDefs |-> d.edgeDefs \cap pre.edgeDefs,
     docs |-> d.docs \cap pre.docs]

(***************************************************************************)
(* C31.  No step of the compensation removes or alters a collection, an    *)
(* index, a graph, an edge definition or a document that was in the store  *)
(* before the run began and is still there.                                *)
(***************************************************************************)
C31_CompensationSparesOlder ==
    [][pc = "compensating" => ThereBefore(db') = ThereBefore(db)]_vars

\* The file of a migration number.
FileOf(number) == number \o JsonSuffix

\* The last run failed in the per-migration scope at its migration mi, after
\* earlier migrations had completed, and its compensation completed; since
\* then the file of that migration has been rewritten into a valid one, and
\* the other files of the run are as the run read them.
FailedAndCorrected ==
    /\ pc = "failed"
    /\ result = "operation"
    /\ ~options.AutoRollback
    /\ mi >= 2
    /\ \A i \in DOMAIN pendingMigrations :
          /\ FileOf(pendingMigrations[i].MigrationNumber) \in DOMAIN dir
          /\ i # mi => dir[FileOf(pendingMigrations[i].MigrationNumber)]
                          = pendingMigrations[i].Migration
    /\ dir[FileOf(pendingMigrations[mi].MigrationNumber)] # pendingMigrations[mi].Migration
    /\ LET corrected == dir[FileOf(pendingMigrations[mi].MigrationNumber)]
       IN  corrected.parses /\ Len(corrected.up) > 0 /\ Len(corrected.down) = 0

(***************************************************************************)
(* C32.  A run in the per-migration scope that follows a failed and        *)
(* compensated run, with only the file of the failed migration corrected,  *)
(* starts without error and does not take up again a migration that        *)
(* completed in the failed run.                                            *)
(***************************************************************************)
C32_RecoveryKeepsCompleted ==
    [][(FailedAndCorrected /\ runs' = runs + 1 /\ ~options'.AutoRollback)
         => /\ pc' # "failed"
            /\ \A i \in 1..(mi - 1) : \A k \in DOMAIN pendingMigrations' :
                  pendingMigrations'[k].MigrationNumber
                      # pendingMigrations[i].MigrationNumber]_vars

\* The pending migrations of the run that have a record.
Recorded == {i \in DOMAIN pendingMigrations : LedgerHas(db, pendingMigrations[i].MigrationNumber)}

(***************************************************************************)
(* C33.  When a run has ended, either every pending migration of the run   *)
(* has a record or none has.                                               *)
(***************************************************************************)
C33_CommitAllOrNothing ==
    (runs >= 1 /\ pc \in {"done", "failed"})
        => Recorded = {} \/ Recorded = DOMAIN pendingMigrations

(***************************************************************************)
(* C34.  The hash in a record the run has written is the hash of the       *)
(* content that was parsed and executed for the migration.                 *)
(***************************************************************************)
C34_HashOfBytesExecuted ==
    \A i \in DOMAIN appliedMigrations :
       appliedMigrations[i] \in WrittenByRun
          => appliedMigrations[i].sha256 = getFileSHA256(pendingMigrations[i].Migration)

\* The apply loop is about to execute an addDocument that has a document.
AtAddDocument ==
    /\ pc = "applying"
    /\ CurrentOperation.type = "addDocument"
    /\ Has(CurrentOperation.options, "document")

(***************************************************************************)
(* C35.  What the substitution of the markers makes of the document of an  *)
(* addDocument, at a given time, is the same for every order in which the  *)
(* fields of the document are visited.                                     *)
(***************************************************************************)
C35_SubstitutionOrderFree ==
    AtAddDocument
        => \A o1, o2 \in KeyOrders(CurrentOperation.options.document) :
              LET p1 == processSpecialValues(CurrentOperation.options.document, o1, clock)
                  p2 == processSpecialValues(CurrentOperation.options.document, o2, clock)
              IN  /\ p1.status = p2.status
                  /\ p1.status = "ok" => p1.doc = p2.doc

\* The second call was made while the present call of the first process was
\* under way.
Interleaved == other.during > 0 /\ other.during = runs

\* The migrations of which a call has applied an operation to the store.
AppliedBy(log) == {log[k].migration : k \in {j \in DOMAIN log : log[j].stored}}

(***************************************************************************)
(* C36.  When two calls interleave on one database and one folder, no      *)
(* migration has operations applied to the store by both calls, and the    *)
(* migration collection holds at most one record per migration number.     *)
(***************************************************************************)
C36_NoDoubleApplication ==
    Interleaved =>
        /\ AppliedBy(execLog) \cap AppliedBy(other.execLog) = {}
        /\ \A r1, r2 \in db.ledger : r1.key = r2.key => r1 = r2

\* The records alone: CreateDocument refuses a key that has a record.
OneRecordPerKey ==
    \A r1, r2 \in db.ledger : r1.key = r2.key => r1 = r2

\* The value is a slice.
IsList(v) == v.type \in {"[]string", "[]int", InterfaceSlice}

\* Every element of the list has type T; a slice declared with another
\* element type is a list of elements of that other type.
ElementsHaveType(v, T) ==
    /\ v.type \in {SliceOf(T), InterfaceSlice}
    /\ \A i \in DOMAIN v.items : v.items[i].type = T

(***************************************************************************)
(* C37.  getSlice returns the elements in order and true when the key is   *)
(* present and its value is a list all of whose elements have the          *)
(* requested type; in every other case (key missing, value no list, an     *)
(* element of another type) it returns nil and false.                      *)
(***************************************************************************)
C37_GetSlice ==
    call.pc = "returned" =>
        IF /\ call.key \in DOMAIN call.m
           /\ IsList(call.m[call.key])
           /\ ElementsHaveType(call.m[call.key], call.T)
        THEN /\ call.ok
             /\ Len(call.slice.items) = Len(call.m[call.key].items)
             /\ \A i \in DOMAIN call.slice.items :
                    call.slice.items[i] = call.m[call.key].items[i].value
        ELSE /\ ~call.ok
             /\ call.slice = NilSlice

\* getSlice has returned the two elements of a []interface{} of strings.
C37_Witness ==
    /\ call.pc = "returned"
    /\ call.key \in DOMAIN call.m
    /\ call.m[call.key].type = InterfaceSlice
    /\ call.T = "string"
    /\ call.ok
    /\ call.slice.items = <<97, 98>>

\* getSlice has refused a []interface{} that holds a string and a number.
C37_WitnessRefused ==
    /\ call.pc = "returned"
    /\ call.key \in DOMAIN call.m
    /\ call.m[call.key] = GoSlice(InterfaceSlice, FALSE, <<GoString(97), GoInt(1)>>)
    /\ call.T = "string"
    /\ ~call.ok
    /\ call.slice = NilSlice

====
